---------------------------- MODULE Spec2Model ----------------------------
(***************************************************************************)
(* Radiomic_Extraction: the extraction dispatcher                          *)
(* (features_extraction/image_feature_extractor.py), the 2D decomposition  *)
(* that feeds it (features_extraction/image_processing.py) and the patient *)
(* id generator (features_extraction/utils.py).                            *)
(*                                                                         *)
(* Python dicts are insertion ordered: a dict is modelled as a sequence of *)
(* <<key, value>> pairs with pairwise distinct keys.  A numpy array is a   *)
(* sequence of planes, a plane a sequence of rows, a row a sequence of     *)
(* integers.  None is the empty tuple where a sequence is expected.        *)
(***************************************************************************)
EXTENDS Integers, Sequences, FiniteSets, TLC

VARIABLES
    mode,          \* argument `mode` of extract_radiomic_features
    isDict,        \* isinstance(patient_dict, dict)
    extractorOk,   \* isinstance(extractor, RadiomicsFeatureExtractor)
    engine_fields, \* names of the decoration that the engine's mapping holds
    patient_dict,  \* argument `patient_dict`
    pc,            \* position of the call: "build", "start", "loop", "done"
    pi,            \* outer loop: index of the current patient in patient_dict
    ui,            \* inner loop: number of units of that patient already done
    all_features,  \* the local all_features_3D / all_features_2D
    calls,         \* extractor.execute invocations so far (history)
    warned,        \* warnings.warn messages so far (history)
    result,        \* <<>> while nothing is returned, <<table>> once returned
    error,         \* the exception that left the call, type "none" if none
    pipe_ids,      \* get_patient_image_mask_dict: patient_ids in zip order
    loaded,        \* the (image, mask) pairs read_image_and_mask has read
    patients_id,   \* new_patient_id: the integer members of `patients_id`
    id_is_set,     \* new_patient_id: isinstance(patients_id, set)
    id_others,     \* new_patient_id: the members that are not integers
    new_id,        \* new_patient_id: local `new_id`
    id_pc,         \* new_patient_id: "idle", "check", "scan", "done"
    id_result,     \* new_patient_id: returned id, 0 while none
    id_error,      \* new_patient_id: type of the exception raised, or "none"
    path,          \* extract_id: argument `path`, a sequence of characters
    ex_pc,         \* extract_id: "idle", "call", "done"
    ex_result,     \* extract_id: <<>> for None, <<id>> for a returned id
    images_path,   \* assign_patient_ids: argument `images_path`
    patient_ids,   \* assign_patient_ids: local `patient_ids`
    assigned,      \* assign_patient_ids: `patient_id` of each iteration so far
    as_pc,         \* assign_patient_ids: "idle", "check", "loop", "done"
    as_result,     \* assign_patient_ids: <<>>, or <<the returned set>>
    as_error,      \* assign_patient_ids: type of the exception, or "none"
    grid_type,     \* extract_largest_region: type of `mask_slice`
    grid_ndim,     \* extract_largest_region: mask_slice.ndim, 0 if no array
    grid_arg,      \* extract_largest_region: `mask_slice` if a 2D array
    label_type,    \* extract_largest_region: type of `label_value`
    label_arg,     \* extract_largest_region: `label_value` if an integer
    elr_pc,        \* extract_largest_region: "idle", "call", "done"
    elr_result,    \* extract_largest_region: the returned value
    elr_error,     \* extract_largest_region: the exception raised, if any
    vol_image,     \* get_slices_2D: the array of argument `image`
    vol_mask,      \* get_slices_2D: the array of argument `mask`
    vol_pid,       \* get_slices_2D: argument `patient_id`
    gs_pc,         \* get_slices_2D: "idle", "call", "done"
    gs_result,     \* get_slices_2D: the returned list of samples
    ps_returns,    \* get_slices_2D: what process_slice returned, per plane
    masks_path,    \* get_patient_image_mask_dict: argument `masks_path`
    ids_arg,       \* get_patient_image_mask_dict: argument `patient_ids`
    ld_typed,      \* get_patient_image_mask_dict: arguments of declared types
    ld_pc,         \* get_patient_image_mask_dict: "idle", "check", "loop", "done"
    ld_result,     \* get_patient_image_mask_dict: <<>>, or <<returned dict>>
    ld_error       \* get_patient_image_mask_dict: the exception raised, if any

callVars == <<mode, isDict, extractorOk, engine_fields>>

pipeVars == <<pipe_ids, loaded>>

idVars == <<patients_id, id_is_set, id_others, new_id, id_pc, id_result,
           id_error>>

nameVars == <<path, ex_pc, ex_result>>

assignVars == <<images_path, patient_ids, assigned, as_pc, as_result,
                as_error>>

regionVars == <<grid_type, grid_ndim, grid_arg, label_type, label_arg,
                elr_pc, elr_result, elr_error>>

sliceVars == <<vol_image, vol_mask, vol_pid, gs_pc, gs_result, ps_returns>>

loadVars == <<masks_path, ids_arg, ld_typed, ld_pc, ld_result, ld_error>>

\* the variables of the calls into utils.py, of the region reducer, of the
\* decomposer and of the loader
utilVars == <<nameVars, assignVars, regionVars, sliceVars, loadVars>>

\* the variables of extract_radiomic_features other than `warned`
dispatchVars == <<callVars, patient_dict, pc, pi, ui, all_features, calls,
                  result, error, pipeVars>>

vars == <<mode, isDict, extractorOk, engine_fields, patient_dict, pc, pi, ui,
          all_features, calls, warned, result, error, pipe_ids, loaded,
          patients_id, id_is_set, id_others, new_id, id_pc, id_result,
          id_error, path, ex_pc, ex_result, images_path, patient_ids,
          assigned, as_pc, as_result, as_error, grid_type, grid_ndim,
          grid_arg, label_type, label_arg, elr_pc, elr_result, elr_error,
          vol_image, vol_mask, vol_pid, gs_pc, gs_result, ps_returns,
          masks_path, ids_arg, ld_typed, ld_pc, ld_result, ld_error>>

-----------------------------------------------------------------------------
(* Bounds of the model.                                                    *)

MaxPatients == 2   \* patients in one input mapping
MaxUnits == 3      \* 2D samples in one input mapping, over all patients
MaskCells == 2     \* cells of a 3D mask handed directly to the extractor
MaxSlices == 2     \* slices of the volumes one pipeline run reads, in total
PlaneCols == 2     \* columns of the one-row mask planes of those volumes
MaxId == 6         \* largest id in an argument of new_patient_id
MaxName == 6       \* characters of a path handed to extract_id
MaxFiles == 4      \* paths in a list handed to assign_patient_ids
MaxRows == 2       \* rows of a grid handed to extract_largest_region
MaxCols == 3       \* columns of such a grid
MaxLabel == 3      \* largest label handed to extract_largest_region
MaxVoxels == 6     \* cells of a volume handed to get_slices_2D
MaxLoads == 2      \* paths in a list handed to get_patient_image_mask_dict
MaxFewPatients == 1 \* patients in a mapping of the fair runs and of the
                    \* runs with an engine that returns decoration names

-----------------------------------------------------------------------------
(* Generic helpers: Python dict, numpy.unique.                             *)

SeqsUpTo(S, n) == UNION {[1..k -> S] : k \in 0..n}

Range(s) == {s[i] : i \in DOMAIN s}

DictKeys(d) == {d[i][1] : i \in DOMAIN d}

DictHas(d, k) == \E i \in DOMAIN d : d[i][1] = k

DictGet(d, k) == d[CHOOSE i \in DOMAIN d : d[i][1] = k][2]

\* an assignment that rebinds the table to a fresh one-entry dict
DictSet_Replace(d, k, v) == <<<<k, v>>>>

\* d[k] = v : a present key keeps its position, a new key goes last
DictSet(d, k, v) ==
    IF DictHas(d, k)
    THEN [i \in DOMAIN d |-> IF d[i][1] = k THEN <<k, v>> ELSE d[i]]
    ELSE Append(d, <<k, v>>)

RECURSIVE SortedSeq(_)
SortedSeq(S) ==
    IF S = {} THEN <<>>
    ELSE LET m == CHOOSE x \in S : \A y \in S : x <= y
         IN <<m>> \o SortedSeq(S \ {m})

CellValues(volume) ==
    UNION {UNION {Range(volume[z][r]) : r \in DOMAIN volume[z]} :
               z \in DOMAIN volume}

\* the distinct values in descending order
Unique3D_Descending(volume) ==
    LET s == SortedSeq(CellValues(volume))
    IN [i \in DOMAIN s |-> s[Len(s) + 1 - i]]

\* np.unique(mask_array): the distinct values, ascending
Unique3D(volume) == SortedSeq(CellValues(volume))

\* the background label is kept
NonZero_KeepAll(labels) == labels

\* labels[labels != 0]
NonZero(labels) == SelectSeq(labels, LAMBDA l : l # 0)

-----------------------------------------------------------------------------
(* The external feature-computation engine.  An image is identified with   *)
(* what the engine does on it: `bad` is the set of labels on which         *)
(* extractor.execute raises, `val` an intensity the features depend on.    *)
(* The outcome on a unit depends on that unit only.                        *)

Labels == {1, 2}

EngineRaises(img, mask, lbl) == lbl \in img.bad

\* the names the dispatcher decorates a record with
DecorationNames == {"MaskLabel", "PatientID", "SliceIndex"}

\* the mapping extractor.execute returns: two features, and a value of its
\* own under every decoration name it holds
EngineFeatures(img, mask, lbl) ==
    [Feature1 |-> img.val, Feature2 |-> 10 * lbl + img.val]
        @@ [f \in engine_fields |-> 90 + lbl]

\* the class of the exception the engine raises on a unit it fails on
EngineException(img, mask, lbl) ==
    IF lbl = 1 THEN "ValueError" ELSE "RuntimeError"

\* extractor.execute(img, mask, label=int(lbl))
Execute(img, mask, lbl) ==
    IF EngineRaises(img, mask, lbl)
    THEN [ok |-> FALSE, features |-> <<>>,
          exc |-> EngineException(img, mask, lbl)]
    ELSE [ok |-> TRUE, features |-> EngineFeatures(img, mask, lbl),
          exc |-> "none"]

\* a handler that catches ValueError only
Caught_OnlyValueError(exc) == exc = "ValueError"

\* the classes `except Exception as e` catches
Caught(exc) ==
    exc \in {"Exception", "ValueError", "TypeError", "RuntimeError",
             "KeyError", "IndexError"}

\* a check that tests the sign instead of zero
ZeroLabel_Negative(lbl) == lbl < 0

\* `if lbl == 0` of radiomic_extractor_2D
ZeroLabel(lbl) == lbl = 0

-----------------------------------------------------------------------------
(* Keys and records of the result table.                                   *)

\* a key without the patient id
Key3D_LabelOnly(pr_id, lbl) == ToString(lbl)

\* f"PR{pr_id} - {lbl:d}"
Key3D(pr_id, lbl) == "PR" \o ToString(pr_id) \o " - " \o ToString(lbl)

\* a key without the patient id
Key2D_NoPatient(patient_id, index, lbl) ==
    ToString(index) \o "-" \o ToString(lbl)

\* f"{patient_id}-{index}-{lbl}"
Key2D(patient_id, index, lbl) ==
    ToString(patient_id) \o "-" \o ToString(index) \o "-" \o ToString(lbl)

\* a record without the unpacked features
Record3D_DecorationOnly(lbl, pr_id, features) ==
    [MaskLabel |-> lbl, PatientID |-> pr_id]

\* {"MaskLabel": lbl, "PatientID": pr_id, **features}
Record3D(lbl, pr_id, features) ==
    features @@ [MaskLabel |-> lbl, PatientID |-> pr_id]

\* {"MaskLabel": lbl, "SliceIndex": index, "PatientID": patient_id, **features}
Record2D(lbl, index, patient_id, features) ==
    features @@ [MaskLabel |-> lbl, SliceIndex |-> index,
                 PatientID |-> patient_id]

NoError == [type |-> "none", msg |-> ""]

NoLabelsError(pr_id) ==
    [type |-> "ValueError",
     msg |-> "No labels found in mask for patient " \o ToString(pr_id)]

\* the checks without the one of the extractor
ValidationError_NoExtractorCheck(is_dict, m, extractor_ok, d) ==
    IF ~is_dict
    THEN [type |-> "TypeError", msg |-> "patient_dict must be a dictionary."]
    ELSE IF m \notin {"2D", "3D"}
    THEN [type |-> "ValueError",
          msg |-> "Invalid mode. Choose either '2D' or '3D'."]
    ELSE IF Len(d) = 0
    THEN [type |-> "ValueError",
          msg |-> "patient_dict_" \o m \o " cannot be empty."]
    ELSE [type |-> "none", msg |-> ""]

\* the checks of extract_radiomic_features, then those of the extractor it
\* delegates to, in the order the code makes them
ValidationError(is_dict, m, extractor_ok, d) ==
    IF ~is_dict
    THEN [type |-> "TypeError", msg |-> "patient_dict must be a dictionary."]
    ELSE IF m \notin {"2D", "3D"}
    THEN [type |-> "ValueError",
          msg |-> "Invalid mode. Choose either '2D' or '3D'."]
    ELSE IF ~extractor_ok
    THEN [type |-> "TypeError",
          msg |-> "extractor must be an instance of RadiomicsFeatureExtractor."]
    ELSE IF Len(d) = 0
    THEN [type |-> "ValueError",
          msg |-> "patient_dict_" \o m \o " cannot be empty."]
    ELSE NoError

\* a loop that leaves the patient after its first unit
Advance_LeavePatient(p, u, n) == <<p + 1, 0>>

\* the position after unit ui + 1 of a patient that has n units
Advance(p, u, n) == IF u + 1 < n THEN <<p, u + 1>> ELSE <<p + 1, 0>>

-----------------------------------------------------------------------------
(* Region reduction and 2D decomposition (image_processing.py).            *)

None == <<>>

CellsOf(grid) == (1..Len(grid)) \X (1..Len(grid[1]))

\* np.unique(mask_slice)
Unique2D(grid) == Unique3D(<<grid>>)

\* the comparison is inverted
RegionMask_NotEqual(mask_slice, label_value) ==
    {x \in CellsOf(mask_slice) : mask_slice[x[1]][x[2]] # label_value}

\* region_mask = mask_slice == label_value, as the set of its True cells
RegionMask(mask_slice, label_value) ==
    {x \in CellsOf(mask_slice) : mask_slice[x[1]][x[2]] = label_value}

\* 4-connectivity, the default structuring element of scipy.ndimage.label
Adjacent(a, b) ==
    \/ a[1] = b[1] /\ (a[2] = b[2] + 1 \/ b[2] = a[2] + 1)
    \/ a[2] = b[2] /\ (a[1] = b[1] + 1 \/ b[1] = a[1] + 1)

RECURSIVE Grow(_, _)
Grow(comp, cells) ==
    LET more == {x \in cells \ comp : \E y \in comp : Adjacent(x, y)}
    IN IF more = {} THEN comp ELSE Grow(comp \cup more, cells)

RasterFirst(cells) ==
    CHOOSE x \in cells :
        \A y \in cells : x[1] < y[1] \/ (x[1] = y[1] /\ x[2] <= y[2])

\* scipy.ndimage.label(region_mask): the components, numbered in raster
\* order of their first cell; num_labels is the length
RECURSIVE Components(_)
Components(cells) ==
    IF cells = {} THEN <<>>
    ELSE LET comp == Grow({RasterFirst(cells)}, cells)
         IN <<comp>> \o Components(cells \ comp)

\* the cells outside the component keep their value
RegionOf_KeepOthers(mask_slice, comp, label_value) ==
    [r \in 1..Len(mask_slice) |->
        [c \in 1..Len(mask_slice[1]) |->
            IF <<r, c>> \in comp THEN label_value ELSE mask_slice[r][c]]]

\* (labeled_region == region_id).astype(mask_slice.dtype) * label_value
RegionOf(mask_slice, comp, label_value) ==
    [r \in 1..Len(mask_slice) |->
        [c \in 1..Len(mask_slice[1]) |->
            IF <<r, c>> \in comp THEN label_value ELSE 0]]

\* np.sum(region > 0)
RegionArea(region) ==
    Cardinality({x \in CellsOf(region) : region[x[1]][x[2]] > 0})

\* a later region of equal area replaces the current best
RECURSIVE LargestFrom_LastWins(_, _, _, _, _, _)
LargestFrom_LastWins(mask_slice, label_value, comps, region_id, largest_region, largest_area) ==
    IF region_id > Len(comps) THEN largest_region
    ELSE LET region == RegionOf(mask_slice, comps[region_id], label_value)
             region_area == RegionArea(region)
         IN IF region_area >= largest_area /\ region_area > 0
            THEN LargestFrom_LastWins(mask_slice, label_value, comps,
                                      region_id + 1, region, region_area)
            ELSE LargestFrom_LastWins(mask_slice, label_value, comps,
                                      region_id + 1, largest_region,
                                      largest_area)

\* the loop `for region_id in range(1, num_labels + 1)`
RECURSIVE LargestFrom(_, _, _, _, _, _)
LargestFrom(mask_slice, label_value, comps, region_id, largest_region, largest_area) ==
    IF region_id > Len(comps) THEN largest_region
    ELSE LET region == RegionOf(mask_slice, comps[region_id], label_value)
             region_area == RegionArea(region)
         IN IF region_area > largest_area
            THEN LargestFrom(mask_slice, label_value, comps, region_id + 1,
                             region, region_area)
            ELSE LargestFrom(mask_slice, label_value, comps, region_id + 1,
                             largest_region, largest_area)

\* extract_largest_region for a 2D array and a non-negative integer label
extract_largest_region(mask_slice, label_value) ==
    LargestFrom(mask_slice, label_value,
                Components(RegionMask(mask_slice, label_value)), 1, None, 0)

\* the last label that has a region wins
FirstRegion_Last(mask_slice, labels, i) ==
    LET found == {j \in i..Len(labels) :
                     extract_largest_region(mask_slice, labels[j]) # None}
    IN IF found = {} THEN <<None, None>>
       ELSE LET j == CHOOSE k \in found : \A l \in found : l <= k
            IN <<extract_largest_region(mask_slice, labels[j]), labels[j]>>

\* the loop `for lbl in labels` of process_slice
RECURSIVE FirstRegion(_, _, _)
FirstRegion(mask_slice, labels, i) ==
    IF i > Len(labels) THEN <<None, None>>
    ELSE LET lbl == labels[i]
             largest_region_mask == extract_largest_region(mask_slice, lbl)
         IN IF largest_region_mask # None
            THEN <<largest_region_mask, lbl>>
            ELSE FirstRegion(mask_slice, labels, i + 1)

\* the loop index is returned in place of the label
process_slice_Index(mask_slice) ==
    LET labels == NonZero(Unique2D(mask_slice))
        found == FirstRegion(mask_slice, labels, 1)
    IN IF found[1] = None THEN found
       ELSE <<found[1], (CHOOSE i \in DOMAIN labels : labels[i] = found[2]) - 1>>

process_slice(mask_slice) ==
    FirstRegion(mask_slice, NonZero(Unique2D(mask_slice)), 1)

\* the loop `for slice_idx in range(mask_array.shape[0])` of get_slices_2D
RECURSIVE SlicesFrom(_, _, _, _, _)
SlicesFrom(image_array, mask_array, patient_id, slice_idx, patient_slices) ==
    IF slice_idx >= Len(mask_array) THEN patient_slices
    ELSE LET mask_slice == mask_array[slice_idx + 1]
             image_slice == image_array[slice_idx + 1]
             processed == process_slice(mask_slice)
         IN IF processed[1] = None
            THEN SlicesFrom(image_array, mask_array, patient_id,
                            slice_idx + 1, patient_slices)
            ELSE SlicesFrom(image_array, mask_array, patient_id,
                            slice_idx + 1,
                            Append(patient_slices,
                                   [PatientID |-> "PR" \o ToString(patient_id),
                                    Label |-> processed[2],
                                    SliceIndex |-> slice_idx,
                                    ImageSlice |-> image_slice,
                                    MaskSlice |-> processed[1]]))

\* SliceIndex is the position in the returned list
get_slices_2D_Renumbered(image, mask, patient_id) ==
    LET patient_slices == SlicesFrom(image, mask, patient_id, 0, <<>>)
    IN [j \in DOMAIN patient_slices |->
           [patient_slices[j] EXCEPT !.SliceIndex = j - 1]]

get_slices_2D(image, mask, patient_id) ==
    SlicesFrom(image, mask, patient_id, 0, <<>>)

\* every plane of the mask is reduced to the region of process_slice
get_volume_3D_Reduced(image, mask, patient_id) ==
    <<[PatientID |-> "PR" \o ToString(patient_id),
       ImageVolume |-> image,
       MaskVolume |-> [z \in DOMAIN mask |->
                          IF process_slice(mask[z])[1] = None THEN mask[z]
                          ELSE process_slice(mask[z])[1]]]>>

\* get_volume_3D (src/image_processing.py 197-210; the same body is
\* get_patient_3D_data of features_extraction/image_processing.py), for a
\* SimpleITK image and mask and an integer patient id
get_volume_3D(image, mask, patient_id) ==
    <<[PatientID |-> "PR" \o ToString(patient_id),
       ImageVolume |-> image,
       MaskVolume |-> mask]>>

-----------------------------------------------------------------------------
(* Inputs handed directly to extract_radiomic_features.                    *)

PatientIds == 1..MaxPatients

\* the orders in which a mapping can hold its (distinct) patient ids
IdSeqs == {s \in SeqsUpTo(PatientIds, MaxPatients) :
              \A i, j \in DOMAIN s : i # j => s[i] # s[j]}

Images3D == {[val |-> 5, bad |-> b] : b \in SUBSET Labels}

Images2D == {[val |-> 5, bad |-> b] : b \in {{}, Labels}}

\* 3D masks of one plane with one row of MaskCells cells
Masks3D == {<<<<row>>>> : row \in [1..MaskCells -> {0} \cup Labels]}

Volumes3D == {<<[ImageVolume |-> i, MaskVolume |-> m]>> :
                 i \in Images3D, m \in Masks3D}

\* the mapping that holds the volumes vs under the ids, in that order
Dict3D(ids, vs) == [k \in DOMAIN ids |-> <<ids[k], vs[k]>>]

SliceIndices == {0, 1}

\* a slice sample as a caller can hand it over: also with Label 0
Samples2D == {[Label |-> l, SliceIndex |-> x, ImageSlice |-> i,
               MaskSlice |-> <<<<l>>>>] :
                 l \in {0} \cup Labels, x \in SliceIndices, i \in Images2D}

\* the samples of `flat` dealt to the patients of `ids` at the cut points
Deal(ids, flat, cuts) ==
    [k \in DOMAIN ids |->
        <<ids[k], SubSeq(flat, cuts[k] + 1, cuts[k + 1])>>]

Cuts(n, len) == {c \in [1..(n + 1) -> 0..len] :
                    /\ c[1] = 0
                    /\ c[n + 1] = len
                    /\ \A k \in 1..n : c[k] <= c[k + 1]}

\* patient_dict is a mapping of 3D volumes
Input3D ==
    \E ids \in IdSeqs : \E vs \in [DOMAIN ids -> Volumes3D] :
        patient_dict = Dict3D(ids, vs)

\* patient_dict is a mapping of lists of 2D samples
Input2D ==
    \E ids \in IdSeqs : \E flat \in SeqsUpTo(Samples2D, MaxUnits) :
        /\ ids = <<>> => flat = <<>>
        /\ \E c \in Cuts(Len(ids), Len(flat)) :
              patient_dict = Deal(ids, flat, c)

-----------------------------------------------------------------------------
(* The call extract_radiomic_features(patient_dict, extractor, mode).      *)

\* no call of new_patient_id is in progress
IdIdle ==
    /\ patients_id = {}
    /\ id_is_set = TRUE
    /\ id_others = {}
    /\ new_id = 0
    /\ id_pc = "idle"
    /\ id_result = 0
    /\ id_error = "none"

\* no call of extract_id is in progress
NameIdle ==
    /\ path = <<>>
    /\ ex_pc = "idle"
    /\ ex_result = <<>>

\* no call of assign_patient_ids is in progress
AssignIdle ==
    /\ images_path = <<>>
    /\ patient_ids = {}
    /\ assigned = <<>>
    /\ as_pc = "idle"
    /\ as_result = <<>>
    /\ as_error = "none"

\* no call of extract_largest_region is in progress
RegionIdle ==
    /\ grid_type = "ndarray"
    /\ grid_ndim = 2
    /\ grid_arg = <<>>
    /\ label_type = "int"
    /\ label_arg = 0
    /\ elr_pc = "idle"
    /\ elr_result = <<>>
    /\ elr_error = NoError

\* no call of get_slices_2D is in progress
SliceIdle ==
    /\ vol_image = <<>>
    /\ vol_mask = <<>>
    /\ vol_pid = 0
    /\ gs_pc = "idle"
    /\ gs_result = <<>>
    /\ ps_returns = <<>>

\* no call of get_patient_image_mask_dict is in progress
LoadIdle ==
    /\ masks_path = <<>>
    /\ ids_arg = {}
    /\ ld_typed = TRUE
    /\ ld_pc = "idle"
    /\ ld_result = <<>>
    /\ ld_error = NoError

\* no call into utils.py, the region reducer, the decomposer or the loader
\* is in progress
UtilIdle == NameIdle /\ AssignIdle /\ RegionIdle /\ SliceIdle /\ LoadIdle

\* nothing has been extracted yet
NotStarted ==
    /\ pi = 0
    /\ ui = 0
    /\ all_features = <<>>
    /\ calls = <<>>
    /\ warned = <<>>
    /\ result = <<>>
    /\ error = NoError

\* the arguments of a call
InitCall ==
    /\ mode \in {"2D", "3D", "4D"}
    /\ isDict \in BOOLEAN
    /\ extractorOk \in BOOLEAN
    /\ IF ~isDict THEN patient_dict = <<>>
       ELSE IF mode = "2D" THEN Input2D
       ELSE Input3D
    /\ pc = "start"
    /\ NotStarted
    /\ pipe_ids = <<>>
    /\ loaded = <<>>
    /\ IdIdle
    /\ UtilIdle

\* image_feature_extractor.py 233-243, 83-92 / 158-167
Validate ==
    /\ pc = "start"
    /\ LET err == ValidationError(isDict, mode, extractorOk, patient_dict)
       IN IF err.type # "none"
          THEN /\ pc' = "done"
               /\ error' = err
               /\ UNCHANGED <<pi, ui>>
          ELSE /\ pc' = "loop"
               /\ pi' = 1
               /\ ui' = 0
               /\ UNCHANGED error
    /\ UNCHANGED <<callVars, patient_dict, all_features, calls, warned,
                   result, pipeVars, idVars, utilVars>>

\* one iteration of `for lbl in labels` of radiomic_extractor_3D, with the
\* label derivation and the empty-label check of its patient
Step3D ==
    /\ pc = "loop"
    /\ mode = "3D"
    /\ pi <= Len(patient_dict)
    /\ LET pr_id == patient_dict[pi][1]
           patient_volume == patient_dict[pi][2][1]
           img == patient_volume.ImageVolume
           mask == patient_volume.MaskVolume
           labels == NonZero(Unique3D(mask))
       IN IF Len(labels) = 0
          THEN /\ pc' = "done"
               /\ error' = NoLabelsError(pr_id)
               /\ UNCHANGED <<pi, ui, all_features, calls, warned>>
          ELSE LET lbl == labels[ui + 1]
                   out == Execute(img, mask, lbl)
                   pos == Advance(pi, ui, Len(labels))
               IN /\ calls' = Append(calls, [pid |-> pr_id, unit |-> ui + 1,
                                             label |-> lbl, ok |-> out.ok])
                  /\ IF out.ok
                     THEN /\ all_features' =
                                DictSet(all_features, Key3D(pr_id, lbl),
                                        Record3D(lbl, pr_id, out.features))
                          /\ pi' = pos[1]
                          /\ ui' = pos[2]
                          /\ UNCHANGED <<pc, error, warned>>
                     ELSE IF Caught(out.exc)
                     THEN /\ warned' = Append(warned, <<pr_id, lbl>>)
                          /\ pi' = pos[1]
                          /\ ui' = pos[2]
                          /\ UNCHANGED <<pc, error, all_features>>
                     ELSE /\ pc' = "done"
                          /\ error' = [type |-> out.exc, msg |-> "engine"]
                          /\ UNCHANGED <<pi, ui, all_features, warned>>
    /\ UNCHANGED <<callVars, patient_dict, result, pipeVars, idVars, utilVars>>

\* one iteration of `for slice_data in patient_slices` of
\* radiomic_extractor_2D; a patient without samples has no iteration
Step2D ==
    /\ pc = "loop"
    /\ mode = "2D"
    /\ pi <= Len(patient_dict)
    /\ LET patient_id == patient_dict[pi][1]
           patient_slices == patient_dict[pi][2]
       IN IF Len(patient_slices) = 0
          THEN /\ pi' = pi + 1
               /\ ui' = 0
               /\ UNCHANGED <<pc, error, all_features, calls, warned>>
          ELSE LET slice_data == patient_slices[ui + 1]
                   lbl == slice_data.Label
                   index == slice_data.SliceIndex
               IN IF ZeroLabel(lbl)
                  THEN /\ pc' = "done"
                       /\ error' = NoLabelsError(patient_id)
                       /\ UNCHANGED <<pi, ui, all_features, calls, warned>>
                  ELSE LET out == Execute(slice_data.ImageSlice,
                                          slice_data.MaskSlice, lbl)
                           pos == Advance(pi, ui, Len(patient_slices))
                       IN /\ calls' = Append(calls,
                                  [pid |-> patient_id, unit |-> ui + 1,
                                   label |-> lbl, ok |-> out.ok])
                          /\ IF out.ok
                             THEN /\ all_features' =
                                        DictSet(all_features,
                                                Key2D(patient_id, index, lbl),
                                                Record2D(lbl, index, patient_id,
                                                         out.features))
                                  /\ pi' = pos[1]
                                  /\ ui' = pos[2]
                                  /\ UNCHANGED <<pc, error, warned>>
                             ELSE IF Caught(out.exc)
                             THEN /\ warned' = Append(warned, <<patient_id, lbl>>)
                                  /\ pi' = pos[1]
                                  /\ ui' = pos[2]
                                  /\ UNCHANGED <<pc, error, all_features>>
                             ELSE /\ pc' = "done"
                                  /\ error' = [type |-> out.exc,
                                               msg |-> "engine"]
                                  /\ UNCHANGED <<pi, ui, all_features, warned>>
    /\ UNCHANGED <<callVars, patient_dict, result, pipeVars, idVars, utilVars>>

\* `return all_features_3D` / `return all_features_2D`
Return ==
    /\ pc = "loop"
    /\ pi > Len(patient_dict)
    /\ pc' = "done"
    /\ result' = <<all_features>>
    /\ UNCHANGED <<callVars, patient_dict, pi, ui, all_features, calls,
                   warned, error, pipeVars, idVars, utilVars>>

NextDispatch == Validate \/ Step3D \/ Step2D \/ Return

\* a call with an engine whose mapping holds no decoration name
InitDispatch == InitCall /\ engine_fields = {}

SpecDispatch == InitDispatch /\ [][NextDispatch]_vars

\* a call with an engine whose mapping holds decoration names
InitClash ==
    /\ InitCall
    /\ Len(patient_dict) <= MaxFewPatients
    /\ engine_fields \in (SUBSET DecorationNames) \ {{}}

SpecClash == InitClash /\ [][NextDispatch]_vars

\* the inputs of the runs that are checked for termination
InitDispatchFair == InitDispatch /\ Len(patient_dict) <= MaxFewPatients

\* the call is one sequential thread and every step of it returns or
\* raises: a step that can be taken is taken
SpecDispatchFair ==
    InitDispatchFair /\ [][NextDispatch]_vars /\ WF_vars(NextDispatch)

-----------------------------------------------------------------------------
(* The pipeline of main.py in mode "2D": get_patient_image_mask_dict       *)
(* builds the mapping, extract_radiomic_features consumes it.              *)

ImagePlanes == Images2D

MaskPlanes == {<<row>> : row \in [1..PlaneCols -> {0} \cup Labels]}

SlicesRead(vols) ==
    IF vols = <<>> THEN 0
    ELSE LET RECURSIVE Sum(_)
             Sum(k) == IF k = 0 THEN 0 ELSE Len(vols[k].mask) + Sum(k - 1)
         IN Sum(Len(vols))

InitPipe ==
    /\ mode = "2D"
    /\ isDict = TRUE
    /\ extractorOk = TRUE
    /\ engine_fields = {}
    /\ pipe_ids \in {s \in IdSeqs : Len(s) >= 1 /\ Len(s) <= MaxSlices}
    /\ loaded = <<>>
    /\ patient_dict = <<>>
    /\ pc = "build"
    /\ NotStarted
    /\ IdIdle
    /\ UtilIdle

\* one iteration of the zip loop of get_patient_image_mask_dict
\* (image_processing.py 348-353): read_image_and_mask reads a volume and its
\* mask of equal shape, get_slices_2D decomposes them
Build ==
    /\ pc = "build"
    /\ Len(loaded) < Len(pipe_ids)
    /\ LET k == Len(loaded) + 1
           pr_id == pipe_ids[k]
           room == MaxSlices - SlicesRead(loaded) - (Len(pipe_ids) - k)
       IN \E depth \in 1..room :
            \E img \in [1..depth -> ImagePlanes] :
              \E mask \in [1..depth -> MaskPlanes] :
                /\ loaded' = Append(loaded, [image |-> img, mask |-> mask])
                /\ patient_dict' =
                       DictSet(patient_dict, pr_id,
                               get_slices_2D(img, mask, pr_id))
                /\ pc' = IF k = Len(pipe_ids) THEN "start" ELSE "build"
    /\ UNCHANGED <<callVars, pi, ui, all_features, calls, warned, result,
                   error, pipe_ids, idVars, utilVars>>

NextPipe == Build \/ Validate \/ Step2D \/ Return

SpecPipe == InitPipe /\ [][NextPipe]_vars

-----------------------------------------------------------------------------
(* The 3D decomposition followed by the 3D extraction: every patient's     *)
(* image and mask are wrapped by get_volume_3D and stored under the        *)
(* patient's id, extract_radiomic_features consumes the mapping.           *)

InitVolume ==
    /\ mode = "3D"
    /\ isDict = TRUE
    /\ extractorOk = TRUE
    /\ engine_fields = {}
    /\ pipe_ids \in {s \in IdSeqs : Len(s) >= 1}
    /\ loaded = <<>>
    /\ patient_dict = <<>>
    /\ pc = "wrap"
    /\ NotStarted
    /\ IdIdle
    /\ UtilIdle

\* patient_volume = get_volume_3D(img, mask, pr_id);
\* patient_dict[pr_id] = patient_volume
Wrap ==
    /\ pc = "wrap"
    /\ Len(loaded) < Len(pipe_ids)
    /\ LET k == Len(loaded) + 1
           pr_id == pipe_ids[k]
       IN \E img \in Images3D : \E mask \in Masks3D :
            /\ loaded' = Append(loaded, [image |-> img, mask |-> mask])
            /\ patient_dict' =
                   DictSet(patient_dict, pr_id, get_volume_3D(img, mask, pr_id))
            /\ pc' = IF k = Len(pipe_ids) THEN "start" ELSE "wrap"
    /\ UNCHANGED <<callVars, pi, ui, all_features, calls, warned, result,
                   error, pipe_ids, idVars, utilVars>>

NextVolume == Wrap \/ Validate \/ Step3D \/ Return

SpecVolume == InitVolume /\ [][NextVolume]_vars

-----------------------------------------------------------------------------
(* new_patient_id(patients_id) (utils.py 137-150).  The argument is a set  *)
(* or another collection (a list, a string); its members are integers      *)
(* (patients_id) and values of other types (id_others).                    *)

\* members that are not instances of int: a string and a float
NonIntegers == {"three", "3.5"}

InitIds ==
    /\ patients_id \in SUBSET ((-1)..MaxId)
    /\ id_is_set \in BOOLEAN
    /\ id_others \in SUBSET NonIntegers
    /\ new_id = 0
    /\ id_pc = "check"
    /\ id_result = 0
    /\ id_error = "none"
    /\ mode = "3D"
    /\ isDict = TRUE
    /\ extractorOk = TRUE
    /\ engine_fields = {}
    /\ patient_dict = <<>>
    /\ pc = "idle"
    /\ NotStarted
    /\ pipe_ids = <<>>
    /\ loaded = <<>>
    /\ UtilIdle

\* `new_id = 1`
FirstCandidate == 1

\* a scan that steps by two
NextCandidate_Skip(n) == n + 2

\* `new_id += 1`
NextCandidate(n) == n + 1

\* the non-integer members are reported with the exception of the
\* negative ones
ArgumentError_ValueForMember(is_set, ints, others) ==
    IF ~is_set THEN "TypeError"
    ELSE IF others # {} THEN "ValueError"
    ELSE IF \E i \in ints : i < 0 THEN "ValueError"
    ELSE "none"

\* the three checks of utils.py 137-144, in their order
ArgumentError(is_set, ints, others) ==
    IF ~is_set THEN "TypeError"
    ELSE IF others # {} THEN "TypeError"
    ELSE IF \E i \in ints : i < 0 THEN "ValueError"
    ELSE "none"

\* utils.py 137-146
NewIdCheck ==
    /\ id_pc = "check"
    /\ LET raised == ArgumentError(id_is_set, patients_id, id_others)
       IN IF raised # "none"
          THEN /\ id_pc' = "done"
               /\ id_error' = raised
               /\ UNCHANGED new_id
          ELSE /\ id_pc' = "scan"
               /\ new_id' = FirstCandidate
               /\ UNCHANGED id_error
    /\ UNCHANGED <<patients_id, id_is_set, id_others, id_result>>
    /\ UNCHANGED <<callVars, patient_dict, pc, pi, ui, all_features, calls,
                   warned, result, error, pipeVars, utilVars>>

\* one iteration of `while new_id in patients_id`
NewIdScan ==
    /\ id_pc = "scan"
    /\ new_id \in patients_id
    /\ new_id' = NextCandidate(new_id)
    /\ UNCHANGED <<patients_id, id_is_set, id_others, id_pc, id_result,
                   id_error>>
    /\ UNCHANGED <<callVars, patient_dict, pc, pi, ui, all_features, calls,
                   warned, result, error, pipeVars, utilVars>>

\* `return new_id`
NewIdReturn ==
    /\ id_pc = "scan"
    /\ new_id \notin patients_id
    /\ id_pc' = "done"
    /\ id_result' = new_id
    /\ UNCHANGED <<patients_id, id_is_set, id_others, new_id, id_error>>
    /\ UNCHANGED <<callVars, patient_dict, pc, pi, ui, all_features, calls,
                   warned, result, error, pipeVars, utilVars>>

NextIds == NewIdCheck \/ NewIdScan \/ NewIdReturn

SpecIds == InitIds /\ [][NextIds]_vars

-----------------------------------------------------------------------------
(* extract_id(path) for a string (utils.py 91-109).  A string is the       *)
(* sequence of its characters.                                             *)

Digits == {"0", "1", "2"}

\* the characters of the paths: letters, digits, underscore, separator
Chars == {"P", "R", "_", "/"} \cup Digits

\* no call of extract_radiomic_features is in progress
DispatchIdle ==
    /\ mode = "3D"
    /\ isDict = TRUE
    /\ extractorOk = TRUE
    /\ engine_fields = {}
    /\ patient_dict = <<>>
    /\ pc = "idle"
    /\ NotStarted
    /\ pipe_ids = <<>>
    /\ loaded = <<>>

\* os.path.basename(path): what follows the last separator
basename(p) ==
    LET seps == {i \in DOMAIN p : p[i] = "/"}
    IN IF seps = {} THEN p
       ELSE SubSeq(p, (CHOOSE i \in seps : \A j \in seps : j <= i) + 1,
                   Len(p))

DigitValue(c) == CASE c = "0" -> 0 [] c = "1" -> 1 [] c = "2" -> 2

\* int(digits)
RECURSIVE IntOf(_)
IntOf(digits) ==
    IF digits = <<>> THEN 0
    ELSE 10 * IntOf(SubSeq(digits, 1, Len(digits) - 1))
         + DigitValue(digits[Len(digits)])

\* `PR\d` matches at position i of the file name
MatchAt(filename, i) ==
    /\ i + 2 <= Len(filename)
    /\ filename[i] = "P"
    /\ filename[i + 1] = "R"
    /\ filename[i + 2] \in Digits

\* the last position of the digit run `\d+` that starts at position i
RECURSIVE DigitRunEnd(_, _)
DigitRunEnd(filename, i) ==
    IF i + 1 <= Len(filename) /\ filename[i + 1] \in Digits
    THEN DigitRunEnd(filename, i + 1)
    ELSE i

\* re.findall(r"PR(\d+)", filename) from position i on: the digit groups of
\* the matches, left to right, without overlap
RECURSIVE FindAll(_, _)
FindAll(filename, i) ==
    IF i > Len(filename) THEN <<>>
    ELSE IF MatchAt(filename, i)
         THEN LET e == DigitRunEnd(filename, i + 2)
              IN <<SubSeq(filename, i + 2, e)>> \o FindAll(filename, e + 1)
         ELSE FindAll(filename, i + 1)

\* the last match is taken
FirstMatch_Last(matches) == matches[Len(matches)]

\* `matches[0]`
FirstMatch(matches) == matches[1]

\* only a leading "PR" is seen
HasPR_Leading(filename) ==
    Len(filename) >= 2 /\ filename[1] = "P" /\ filename[2] = "R"

\* `"PR" in filename`
HasPR(filename) ==
    \E i \in 1..(Len(filename) - 1) :
        filename[i] = "P" /\ filename[i + 1] = "R"

\* the two warnings of utils.py 98-107
InvalidFormatWarning(filename) ==
    [category |-> "UserWarning",
     text |-> "Invalid patient ID format in file name",
     filename |-> filename]

NoValidIdWarning(filename) ==
    [category |-> "UserWarning",
     text |-> "No valid patient ID found in file name",
     filename |-> filename]

\* the returned value and the warnings issued
extract_id(p) ==
    LET filename == basename(p)
        matches == FindAll(filename, 1)
    IN IF matches # <<>>
       THEN [ret |-> <<IntOf(FirstMatch(matches))>>, warn |-> <<>>]
       ELSE IF HasPR(filename)
            THEN [ret |-> None, warn |-> <<InvalidFormatWarning(filename)>>]
            ELSE [ret |-> None, warn |-> <<NoValidIdWarning(filename)>>]

InitNames ==
    /\ path \in SeqsUpTo(Chars, MaxName)
    /\ ex_pc = "call"
    /\ ex_result = <<>>
    /\ DispatchIdle
    /\ IdIdle
    /\ AssignIdle
    /\ RegionIdle
    /\ SliceIdle
    /\ LoadIdle

\* the call extract_id(path)
ExtractId ==
    /\ ex_pc = "call"
    /\ LET r == extract_id(path)
       IN /\ ex_result' = r.ret
          /\ warned' = warned \o r.warn
    /\ ex_pc' = "done"
    /\ UNCHANGED <<path, dispatchVars, idVars, assignVars, regionVars,
                   sliceVars, loadVars>>

NextNames == ExtractId

SpecNames == InitNames /\ [][NextNames]_vars

-----------------------------------------------------------------------------
(* assign_patient_ids(images_path) for a list of strings (utils.py         *)
(* 181-194).                                                               *)

\* the file names of the lists: two with an id, one with an id after a
\* digit, one with a malformed id, one without "PR"
AssignNames ==
    {<<"P", "R", "1">>, <<"P", "R", "2">>, <<"2", "P", "R", "1">>,
     <<"P", "R", "_">>, <<"R", "1">>}

\* the loop `while new_id in patients_id` of new_patient_id
RECURSIVE ScanFrom(_, _)
ScanFrom(ids, n) ==
    IF n \in ids THEN ScanFrom(ids, NextCandidate(n)) ELSE n

\* new_patient_id(ids) for a set of non-negative integers
new_patient_id(ids) == ScanFrom(ids, FirstCandidate)

\* the generated id is the number of ids so far plus one
AssignOne_Count(ids, extracted) ==
    IF extracted = None THEN Cardinality(ids) + 1 ELSE extracted[1]

\* utils.py 186-188: the id of one path, given the ids assigned so far and
\* what extract_id returned for it
AssignOne(ids, extracted) ==
    IF extracted = None THEN new_patient_id(ids) ELSE extracted[1]

InitAssign ==
    /\ images_path \in SeqsUpTo(AssignNames, MaxFiles)
    /\ patient_ids = {}
    /\ assigned = <<>>
    /\ as_pc = "check"
    /\ as_result = <<>>
    /\ as_error = "none"
    /\ DispatchIdle
    /\ IdIdle
    /\ NameIdle
    /\ RegionIdle
    /\ SliceIdle
    /\ LoadIdle

\* utils.py 181-184
AssignCheck ==
    /\ as_pc = "check"
    /\ IF images_path = <<>>
       THEN /\ as_pc' = "done"
            /\ as_error' = "ValueError"
       ELSE /\ as_pc' = "loop"
            /\ UNCHANGED as_error
    /\ patient_ids' = {}
    /\ UNCHANGED <<images_path, assigned, as_result, warned, dispatchVars,
                   idVars, nameVars, regionVars, sliceVars, loadVars>>

\* one iteration of `for im_path in images_path` (utils.py 185-192)
AssignStep ==
    /\ as_pc = "loop"
    /\ Len(assigned) < Len(images_path)
    /\ LET im_path == images_path[Len(assigned) + 1]
           extracted == extract_id(im_path)
           raised == IF extracted.ret = None
                     THEN ArgumentError(TRUE, patient_ids, {})
                     ELSE "none"
       IN /\ warned' = warned \o extracted.warn
          /\ IF raised # "none"
             THEN /\ as_pc' = "done"
                  /\ as_error' = raised
                  /\ UNCHANGED <<patient_ids, assigned>>
             ELSE LET patient_id == AssignOne(patient_ids, extracted.ret)
                  IN /\ patient_ids' = patient_ids \cup {patient_id}
                     /\ assigned' = Append(assigned, patient_id)
                     /\ UNCHANGED <<as_pc, as_error>>
    /\ UNCHANGED <<images_path, as_result, dispatchVars, idVars, nameVars,
                   regionVars, sliceVars, loadVars>>

\* `return patient_ids`
AssignReturn ==
    /\ as_pc = "loop"
    /\ Len(assigned) = Len(images_path)
    /\ as_pc' = "done"
    /\ as_result' = <<patient_ids>>
    /\ UNCHANGED <<images_path, patient_ids, assigned, as_error, warned,
                   dispatchVars, idVars, nameVars, regionVars, sliceVars,
                   loadVars>>

NextAssign == AssignCheck \/ AssignStep \/ AssignReturn

SpecAssign == InitAssign /\ [][NextAssign]_vars

-----------------------------------------------------------------------------
(* The call extract_largest_region(mask_slice, label_value) with arguments *)
(* of any type (image_processing.py 39-70).                                *)

\* the values of the cells of a grid
CellValues2D == {0} \cup Labels

RegionError(type, msg) == [type |-> type, msg |-> msg]

\* the negative label is let through
RegionArgumentError_NoNegativeCheck(m_type, m_ndim, l_type, l_value) ==
    IF m_type = "int" /\ l_type = "ndarray"
    THEN RegionError("TypeError", "Inputs appear to be swapped.")
    ELSE IF m_type # "ndarray"
    THEN RegionError("TypeError", "mask_slice must be a numpy array")
    ELSE IF m_ndim # 2
    THEN RegionError("ValueError", "mask_slice must be a 2D array")
    ELSE IF l_type # "int"
    THEN RegionError("TypeError", "Label value must be an integer")
    ELSE NoError

\* the five checks of image_processing.py 39-51, in their order
RegionArgumentError(m_type, m_ndim, l_type, l_value) ==
    IF m_type = "int" /\ l_type = "ndarray"
    THEN RegionError("TypeError", "Inputs appear to be swapped.")
    ELSE IF m_type # "ndarray"
    THEN RegionError("TypeError", "mask_slice must be a numpy array")
    ELSE IF m_ndim # 2
    THEN RegionError("ValueError", "mask_slice must be a 2D array")
    ELSE IF l_type # "int"
    THEN RegionError("TypeError", "Label value must be an integer")
    ELSE IF l_value < 0
    THEN RegionError("ValueError", "Label value cannot be negative")
    ELSE NoError

InitRegion ==
    /\ grid_type \in {"ndarray", "int", "str"}
    /\ grid_ndim \in IF grid_type = "ndarray" THEN 1..3 ELSE {0}
    /\ IF grid_type = "ndarray" /\ grid_ndim = 2
       THEN \E rows \in 1..MaxRows : \E cols \in 1..MaxCols :
                grid_arg \in [1..rows -> [1..cols -> CellValues2D]]
       ELSE grid_arg = <<>>
    /\ label_type \in {"int", "float", "str", "ndarray"}
    /\ label_arg \in IF label_type = "int" THEN (-1)..MaxLabel ELSE {0}
    /\ elr_pc = "call"
    /\ elr_result = <<>>
    /\ elr_error = NoError
    /\ DispatchIdle
    /\ IdIdle
    /\ NameIdle
    /\ AssignIdle
    /\ SliceIdle
    /\ LoadIdle

\* the call: the checks, then the search of the largest region
ExtractLargestRegion ==
    /\ elr_pc = "call"
    /\ LET raised == RegionArgumentError(grid_type, grid_ndim, label_type,
                                         label_arg)
       IN IF raised # NoError
          THEN /\ elr_error' = raised
               /\ UNCHANGED elr_result
          ELSE /\ elr_result' = extract_largest_region(grid_arg, label_arg)
               /\ UNCHANGED elr_error
    /\ elr_pc' = "done"
    /\ UNCHANGED <<grid_type, grid_ndim, grid_arg, label_type, label_arg,
                   warned, dispatchVars, idVars, nameVars, assignVars,
                   sliceVars, loadVars>>

NextRegion == ExtractLargestRegion

SpecRegion == InitRegion /\ [][NextRegion]_vars

-----------------------------------------------------------------------------
(* get_slices_2D on one image and mask (image_processing.py), for a        *)
(* SimpleITK image and mask of the same size and an integer patient id.    *)

\* the shapes (planes, rows, columns) of a volume of at most MaxVoxels cells
VolumeShapes ==
    {sh \in (1..MaxVoxels) \X (1..MaxVoxels) \X (1..MaxVoxels) :
        sh[1] * sh[2] * sh[3] <= MaxVoxels}

\* sitk.GetArrayFromImage(image): planes told apart by their intensity,
\* plane slice_idx holds 10 + slice_idx in every cell
ImageArray(sh) ==
    [z \in 1..sh[1] |-> [r \in 1..sh[2] |-> [c \in 1..sh[3] |-> 9 + z]]]

InitSlices ==
    /\ \E sh \in VolumeShapes :
           /\ vol_image = ImageArray(sh)
           /\ vol_mask \in [1..sh[1] ->
                               [1..sh[2] -> [1..sh[3] -> {0} \cup Labels]]]
    /\ vol_pid \in PatientIds
    /\ gs_pc = "call"
    /\ gs_result = <<>>
    /\ ps_returns = <<>>
    /\ DispatchIdle
    /\ IdIdle
    /\ NameIdle
    /\ AssignIdle
    /\ RegionIdle
    /\ LoadIdle

\* the call: one process_slice per plane, one sample per plane that has a
\* region
GetSlices2D ==
    /\ gs_pc = "call"
    /\ gs_result' = get_slices_2D(vol_image, vol_mask, vol_pid)
    /\ ps_returns' = [z \in DOMAIN vol_mask |-> process_slice(vol_mask[z])]
    /\ gs_pc' = "done"
    /\ UNCHANGED <<vol_image, vol_mask, vol_pid, warned, dispatchVars, idVars,
                   nameVars, assignVars, regionVars, loadVars>>

NextSlices == GetSlices2D

SpecSlices == InitSlices /\ [][NextSlices]_vars

-----------------------------------------------------------------------------
(* get_patient_image_mask_dict(imgs_path, masks_path, patient_ids, mode)   *)
(* (image_processing.py 325-360) and read_image_and_mask (271-286).        *)

LoadError(type, msg) == [type |-> type, msg |-> msg]

\* the checks of image_processing.py 325-344, in their order; `typed` says
\* that the three arguments are a list of str, a list of str, a set of int
LoadArgumentError(typed, imgs, masks, ids) ==
    IF ~typed
    THEN LoadError("TypeError", "must be a list of strings / a set of integers")
    ELSE IF Len(imgs) = 0 \/ Len(masks) = 0 \/ Cardinality(ids) = 0
    THEN LoadError("ValueError",
                   "The imgs_path, masks_path, and patient_ids cannot be empty.")
    ELSE IF Len(imgs) # Len(masks) \/ Len(imgs) # Cardinality(ids)
    THEN LoadError("ValueError",
                   "The number of images, masks, and patient_ids must be the same.")
    ELSE NoError

\* the orders in which iterating the set can yield its members: Python
\* leaves the order of a set open (CPython yields small non-negative
\* integers in ascending order, an implementation that keeps insertion
\* order yields them as they were added)
SetOrders(S) ==
    {s \in [1..Cardinality(S) -> S] :
        \A i, j \in DOMAIN s : i # j => s[i] # s[j]}

\* what read_image_and_mask does for a pair of non-empty paths: it returns
\* the two images, raises ValueError (different directories, different
\* sizes) or lets the RuntimeError of sitk.ReadImage through
ReadOutcomes == {"read", "ValueError", "RuntimeError"}

\* sitk.ReadImage(image_path): the planes of the k-th file of the list hold
\* intensity k
ImageOfFile(k, depth) == [z \in 1..depth |-> [val |-> k, bad |-> {}]]

\* the branches of lines 351-358 that raise: get_volume_3D is not a name of
\* the module, the mode is neither "2D" nor "3D"
LoadModeError(m) ==
    IF m = "2D" THEN NoError
    ELSE IF m = "3D"
    THEN LoadError("NameError", "name 'get_volume_3D' is not defined")
    ELSE LoadError("ValueError", "Mode should be '2D' or '3D'")

InitLoad ==
    /\ images_path \in SeqsUpTo(AssignNames, MaxLoads)
    /\ \E n \in 0..MaxLoads : masks_path = [k \in 1..n |-> "seg.nii"]
    /\ ids_arg \in SUBSET PatientIds
    /\ ld_typed \in BOOLEAN
    /\ mode \in {"2D", "3D", "4D"}
    /\ ld_pc = "check"
    /\ ld_result = <<>>
    /\ ld_error = NoError
    /\ isDict = TRUE
    /\ extractorOk = TRUE
    /\ engine_fields = {}
    /\ patient_dict = <<>>
    /\ pc = "idle"
    /\ NotStarted
    /\ pipe_ids = <<>>
    /\ loaded = <<>>
    /\ patient_ids = {}
    /\ assigned = <<>>
    /\ as_pc = "idle"
    /\ as_result = <<>>
    /\ as_error = "none"
    /\ IdIdle
    /\ NameIdle
    /\ RegionIdle
    /\ SliceIdle

\* image_processing.py 325-346; the order of zip over the set is fixed here
LoadCheck ==
    /\ ld_pc = "check"
    /\ LET raised == LoadArgumentError(ld_typed, images_path, masks_path,
                                       ids_arg)
       IN IF raised # NoError
          THEN /\ ld_error' = raised
               /\ ld_pc' = "done"
               /\ UNCHANGED <<pipe_ids, patient_dict>>
          ELSE /\ pipe_ids' \in SetOrders(ids_arg)
               /\ patient_dict' = <<>>
               /\ ld_pc' = "loop"
               /\ UNCHANGED ld_error
    /\ UNCHANGED <<masks_path, ids_arg, ld_typed, ld_result, loaded, callVars,
                   pc, pi, ui, all_features, calls, warned, result, error,
                   idVars, nameVars, assignVars, regionVars, sliceVars>>

\* one iteration of the zip loop (image_processing.py 348-358): the pair is
\* read first, the mode is looked at afterwards
LoadStep ==
    /\ ld_pc = "loop"
    /\ Len(loaded) < Len(pipe_ids)
    /\ LET k == Len(loaded) + 1
           pr_id == pipe_ids[k]
       IN \E outcome \in ReadOutcomes : \E plane \in MaskPlanes :
            LET img == ImageOfFile(k, 1)
                mask == <<plane>>
            IN IF outcome # "read"
               THEN /\ ld_error' = LoadError(outcome, "read_image_and_mask")
                    /\ ld_pc' = "done"
                    /\ UNCHANGED <<loaded, patient_dict>>
               ELSE /\ loaded' = Append(loaded, [image |-> img, mask |-> mask])
                    /\ IF LoadModeError(mode) # NoError
                       THEN /\ ld_error' = LoadModeError(mode)
                            /\ ld_pc' = "done"
                            /\ UNCHANGED patient_dict
                       ELSE /\ patient_dict' =
                                   DictSet(patient_dict, pr_id,
                                           get_slices_2D(img, mask, pr_id))
                            /\ UNCHANGED <<ld_error, ld_pc>>
    /\ UNCHANGED <<masks_path, ids_arg, ld_typed, ld_result, pipe_ids,
                   callVars, pc, pi, ui, all_features, calls, warned, result,
                   error, idVars, nameVars, assignVars, regionVars, sliceVars>>

\* `return patient_dict`
LoadReturn ==
    /\ ld_pc = "loop"
    /\ Len(loaded) = Len(pipe_ids)
    /\ ld_result' = <<patient_dict>>
    /\ ld_pc' = "done"
    /\ UNCHANGED <<masks_path, ids_arg, ld_typed, ld_error, pipe_ids, loaded,
                   patient_dict, callVars, pc, pi, ui, all_features, calls,
                   warned, result, error, idVars, nameVars, assignVars,
                   regionVars, sliceVars>>

NextLoad == LoadCheck \/ LoadStep \/ LoadReturn

SpecLoad == InitLoad /\ [][NextLoad]_vars

-----------------------------------------------------------------------------
(* main.py 25-29: the paths of get_path_images_masks (as many masks as     *)
(* images, at least one) go to assign_patient_ids, the set it returns goes *)
(* to get_patient_image_mask_dict together with the two lists.             *)

InitMain ==
    /\ images_path \in SeqsUpTo(AssignNames, MaxLoads) \ {<<>>}
    /\ masks_path = [k \in DOMAIN images_path |-> "seg.nii"]
    /\ mode \in {"2D", "3D"}
    /\ patient_ids = {}
    /\ assigned = <<>>
    /\ as_pc = "check"
    /\ as_result = <<>>
    /\ as_error = "none"
    /\ ids_arg = {}
    /\ ld_typed = TRUE
    /\ ld_pc = "idle"
    /\ ld_result = <<>>
    /\ ld_error = NoError
    /\ isDict = TRUE
    /\ extractorOk = TRUE
    /\ engine_fields = {}
    /\ patient_dict = <<>>
    /\ pc = "idle"
    /\ NotStarted
    /\ pipe_ids = <<>>
    /\ loaded = <<>>
    /\ IdIdle
    /\ NameIdle
    /\ RegionIdle
    /\ SliceIdle

\* main.py 26, 29: the returned set becomes the argument patient_ids
MainCall ==
    /\ as_pc = "done"
    /\ as_result # <<>>
    /\ ld_pc = "idle"
    /\ ids_arg' = as_result[1]
    /\ ld_pc' = "check"
    /\ UNCHANGED <<masks_path, ld_typed, ld_result, ld_error, warned,
                   dispatchVars, idVars, nameVars, assignVars, regionVars,
                   sliceVars>>

NextMain ==
    \/ AssignCheck \/ AssignStep \/ AssignReturn
    \/ MainCall
    \/ LoadCheck \/ LoadStep \/ LoadReturn

SpecMain == InitMain /\ [][NextMain]_vars

-----------------------------------------------------------------------------
(* Vocabulary of the properties, stated on the input mapping itself.       *)

ValidCall(m) ==
    isDict /\ extractorOk /\ mode = m /\ patient_dict # <<>>

PatientAt(k) == patient_dict[k][1]

PosOf(pid) == CHOOSE k \in DOMAIN patient_dict : PatientAt(k) = pid

VolumeAt(k) == patient_dict[k][2][1]

\* the non-zero values that occur in the mask of the k-th patient
MaskLabels(k) == CellValues(VolumeAt(k).MaskVolume) \ {0}

\* the 3D units: (position of the patient, label)
Units3D == {u \in (DOMAIN patient_dict) \X Labels : u[2] \in MaskLabels(u[1])}

Succeeds3D(u) ==
    ~EngineRaises(VolumeAt(u[1]).ImageVolume, VolumeAt(u[1]).MaskVolume, u[2])

\* the 2D units: (position of the patient, position of the sample)
Units2D == {u \in (DOMAIN patient_dict) \X (1..MaxUnits) :
               u[2] \in DOMAIN patient_dict[u[1]][2]}

SampleAt(u) == patient_dict[u[1]][2][u[2]]

Succeeds2D(u) ==
    ~EngineRaises(SampleAt(u).ImageSlice, SampleAt(u).MaskSlice,
                  SampleAt(u).Label)

\* iteration order of the units
Before(u, v) == u[1] < v[1] \/ (u[1] = v[1] /\ u[2] < v[2])

\* the key formats of the result table, as the documentation gives them
TableKey3D(pid, l) == "PR" \o ToString(pid) \o " - " \o ToString(l)

TableKey2D(pid, x, l) ==
    ToString(pid) \o "-" \o ToString(x) \o "-" \o ToString(l)

UnitKey2D(u) ==
    TableKey2D(PatientAt(u[1]), SampleAt(u).SliceIndex, SampleAt(u).Label)

PatientError(pid) ==
    [type |-> "ValueError",
     msg |-> "No labels found in mask for patient " \o ToString(pid)]

\* the unit the i-th engine invocation was made for
CallUnit(i) == <<PosOf(calls[i].pid), calls[i].unit>>

OkCalls == {i \in DOMAIN calls : calls[i].ok}

-----------------------------------------------------------------------------
(* C1: radiomic_extractor_3D never raises because the engine failed on a   *)
(* (patient, label): when every patient's mask has a non-zero label the    *)
(* call raises nothing, and when it is over it has returned a table whose  *)
(* key set is exactly the keys "PR{p} - {l}" of the units the engine       *)
(* succeeded on.                                                           *)

C1_Applies ==
    ValidCall("3D") /\ \A k \in DOMAIN patient_dict : MaskLabels(k) # {}

C1_Keys ==
    {TableKey3D(PatientAt(u[1]), u[2]) : u \in {v \in Units3D : Succeeds3D(v)}}

C1_FailureIsolated3D ==
    C1_Applies =>
        /\ error = NoError
        /\ pc = "done" => /\ result # <<>>
                          /\ DictKeys(result[1]) = C1_Keys

\* a returned run of two patients in which one label of a patient failed and
\* the other label of the same patient and a label of the other succeeded
C1_Witness ==
    /\ C1_Applies
    /\ pc = "done"
    /\ result # <<>>
    /\ Len(patient_dict) = 2
    /\ \E i, j, k \in DOMAIN calls :
          /\ ~calls[i].ok /\ calls[j].ok /\ calls[k].ok
          /\ calls[i].pid = calls[j].pid
          /\ calls[k].pid # calls[i].pid

-----------------------------------------------------------------------------
(* C2: radiomic_extractor_2D never raises because the engine failed on a   *)
(* sample: when every sample has a non-zero label the call raises nothing, *)
(* every sample is attempted (also those after a failed one), a failed     *)
(* attempt stores nothing, and the returned key set is exactly the keys    *)
(* "{p}-{sliceIndex}-{label}" of the samples the engine succeeded on.      *)

C2_Applies ==
    ValidCall("2D") /\ \A u \in Units2D : SampleAt(u).Label # 0

C2_Keys == {UnitKey2D(u) : u \in {v \in Units2D : Succeeds2D(v)}}

-----------------------------------------------------------------------------
(* C3: in radiomic_extractor_3D a patient whose mask has no non-zero label *)
(* makes the call fail with a ValueError naming that patient; the engine   *)
(* is invoked neither for that patient nor for a later one, and no table   *)
(* is returned, not even the records built for earlier patients.           *)

C3_Applies ==
    ValidCall("3D") /\ \E k \in DOMAIN patient_dict : MaskLabels(k) = {}

FirstUnlabeled ==
    CHOOSE k \in DOMAIN patient_dict :
        /\ MaskLabels(k) = {}
        /\ \A j \in 1..(k - 1) : MaskLabels(j) # {}

C3_UnlabeledMaskFatal3D ==
    C3_Applies =>
        /\ result = <<>>
        /\ \A i \in DOMAIN calls : PosOf(calls[i].pid) < FirstUnlabeled
        /\ pc = "done" => error = PatientError(PatientAt(FirstUnlabeled))

\* the call failed on the second patient after recording the first one
C3_Witness ==
    /\ C3_Applies
    /\ pc = "done"
    /\ error.type = "ValueError"
    /\ FirstUnlabeled = 2
    /\ all_features # <<>>
    /\ result = <<>>

-----------------------------------------------------------------------------
(* C4: in radiomic_extractor_2D a sample with label 0 is fatal: the call   *)
(* fails with a ValueError naming the patient before the engine is invoked *)
(* for that sample, no later sample is attempted and no table is returned  *)
(* even if earlier samples were recorded.                                  *)

C4_Applies ==
    ValidCall("2D") /\ \E u \in Units2D : SampleAt(u).Label = 0

FirstZeroLabel ==
    CHOOSE u \in Units2D :
        /\ SampleAt(u).Label = 0
        /\ \A v \in Units2D : Before(v, u) => SampleAt(v).Label # 0

C4_ZeroLabelFatal2D ==
    C4_Applies =>
        /\ result = <<>>
        /\ \A i \in DOMAIN calls : Before(CallUnit(i), FirstZeroLabel)
        /\ pc = "done" => error = PatientError(PatientAt(FirstZeroLabel[1]))

\* the call failed on a zero label after an earlier sample was recorded and
\* with a later sample never attempted
C4_Witness ==
    /\ C4_Applies
    /\ pc = "done"
    /\ error.type = "ValueError"
    /\ all_features # <<>>
    /\ result = <<>>
    /\ \E v \in Units2D : Before(FirstZeroLabel, v) /\ SampleAt(v).Label # 0

-----------------------------------------------------------------------------
(* C5: extract_radiomic_features invokes the engine zero times when        *)
(* patient_dict is not a mapping (TypeError), mode is neither "2D" nor     *)
(* "3D" (ValueError), the engine is not a valid engine (TypeError) or      *)
(* patient_dict is empty (ValueError): the call ends with one of the       *)
(* errors of the violations present and nothing is extracted or returned.  *)

C5_Invalid ==
    \/ ~isDict
    \/ mode \notin {"2D", "3D"}
    \/ ~extractorOk
    \/ isDict /\ patient_dict = <<>>

C5_ValidationBeforeExtraction ==
    C5_Invalid =>
        /\ calls = <<>>
        /\ all_features = <<>>
        /\ result = <<>>
        /\ pc = "done" =>
              \/ error.type = "TypeError" /\ (~isDict \/ ~extractorOk)
              \/ error.type = "ValueError"
                    /\ (mode \notin {"2D", "3D"}
                            \/ (isDict /\ patient_dict = <<>>))

\* a call with an invalid mode on a mapping that holds a labelled patient
C5_Witness ==
    /\ pc = "done"
    /\ isDict
    /\ extractorOk
    /\ mode = "4D"
    /\ patient_dict # <<>>
    /\ MaskLabels(1) # {}
    /\ error.type = "ValueError"

-----------------------------------------------------------------------------
(* C6: the zero-label error of radiomic_extractor_2D is unreachable from   *)
(* the pipeline: every sample get_slices_2D produces carries a non-zero    *)
(* label, and radiomic_extractor_2D applied to the mapping built from      *)
(* them never raises the zero-label ValueError.                            *)

C6_ZeroLabelUnreachable ==
    /\ \A k \in DOMAIN patient_dict :
          \A j \in DOMAIN patient_dict[k][2] :
              patient_dict[k][2][j].Label # 0
    /\ \A k \in DOMAIN patient_dict : error # PatientError(PatientAt(k))

\* a pipeline run that returned after an all-zero plane was dropped, a plane
\* with background and a label was reduced and the engine was invoked
C6_Witness ==
    /\ pc = "done"
    /\ result # <<>>
    /\ calls # <<>>
    /\ \E k \in DOMAIN loaded :
          /\ Len(loaded[k].mask) = 2
          /\ Len(patient_dict[k][2]) = 1
          /\ \E z \in DOMAIN loaded[k].mask :
                CellValues(<<loaded[k].mask[z]>>) = {0, 1}

-----------------------------------------------------------------------------
(* C7: order independence: the returned table is a function of the set of  *)
(* (patient, samples) pairs of the input alone, whatever the order in      *)
(* which the mapping holds the patients; the record under a key is the one *)
(* of its own unit, whether or not other units failed.                     *)

Entries == Range(patient_dict)

C7_Table3D ==
    {<<TableKey3D(x[1][1], x[2]),
       Record3D(x[2], x[1][1],
                EngineFeatures(x[1][2][1].ImageVolume,
                               x[1][2][1].MaskVolume, x[2]))>> :
        x \in {y \in Entries \X Labels :
                  /\ y[2] \in CellValues(y[1][2][1].MaskVolume)
                  /\ ~EngineRaises(y[1][2][1].ImageVolume,
                                   y[1][2][1].MaskVolume, y[2])}}

\* the engine succeeds on the j-th sample of the list
C7_Recorded(patient_slices, j) ==
    ~EngineRaises(patient_slices[j].ImageSlice, patient_slices[j].MaskSlice,
                  patient_slices[j].Label)

\* per patient and key, the record of the last sample of the patient's own
\* list that the engine succeeds on
C7_Table2D ==
    {<<TableKey2D(x[1][1], x[1][2][x[2]].SliceIndex, x[1][2][x[2]].Label),
       Record2D(x[1][2][x[2]].Label, x[1][2][x[2]].SliceIndex, x[1][1],
                EngineFeatures(x[1][2][x[2]].ImageSlice,
                               x[1][2][x[2]].MaskSlice,
                               x[1][2][x[2]].Label))>> :
        x \in {y \in Entries \X (1..MaxUnits) :
                  /\ y[2] \in DOMAIN y[1][2]
                  /\ C7_Recorded(y[1][2], y[2])
                  /\ \A j \in DOMAIN y[1][2] :
                        /\ j > y[2]
                        /\ C7_Recorded(y[1][2], j)
                        => <<y[1][2][j].SliceIndex, y[1][2][j].Label>> #
                               <<y[1][2][y[2]].SliceIndex, y[1][2][y[2]].Label>>}}

C7_OrderIndependent ==
    pc = "done" /\ result # <<>> =>
        /\ Range(result[1]) = IF mode = "3D" THEN C7_Table3D ELSE C7_Table2D
        /\ \A i, j \in DOMAIN result[1] :
              i # j => result[1][i][1] # result[1][j][1]

\* a returned run over two patients held in descending order of their ids,
\* with a recorded unit for each and a failed unit
C7_Witness ==
    /\ pc = "done"
    /\ result # <<>>
    /\ Len(patient_dict) = 2
    /\ PatientAt(1) > PatientAt(2)
    /\ \E i, j, k \in DOMAIN calls :
          /\ calls[i].ok /\ calls[j].ok /\ ~calls[k].ok
          /\ calls[i].pid # calls[j].pid

-----------------------------------------------------------------------------
(* C8: as claimed, keys are unique in any run of either extractor: no two  *)
(* extraction attempts target the same key, no stored record is            *)
(* overwritten and the table has one entry per successful invocation.      *)
(* This fails for radiomic_extractor_2D when a patient has two samples     *)
(* with the same SliceIndex and Label.                                     *)

KeyOfCall(c) ==
    IF mode = "3D" THEN TableKey3D(c.pid, c.label)
    ELSE UnitKey2D(<<PosOf(c.pid), c.unit>>)

C8_Unique ==
    /\ \A i, j \in DOMAIN calls :
          i # j => KeyOfCall(calls[i]) # KeyOfCall(calls[j])
    /\ Len(all_features) = Cardinality(OkCalls)
    /\ result # <<>> => Len(result[1]) = Cardinality(OkCalls)

C8_KeysUniqueInAnyRun == C8_Unique

\* C8 as amended: keys are unique in any run of radiomic_extractor_3D, and
\* in any run of radiomic_extractor_2D in which no patient has two samples
\* with the same (SliceIndex, Label)
C8_DistinctSlices ==
    mode = "2D" /\ isDict =>
        \A u, v \in Units2D :
            u # v /\ u[1] = v[1] =>
                <<SampleAt(u).SliceIndex, SampleAt(u).Label>> #
                    <<SampleAt(v).SliceIndex, SampleAt(v).Label>>

C8_KeysUniqueForDistinctSlices == C8_DistinctSlices => C8_Unique

\* a returned 2D run that recorded, for two patients, samples with the same
\* SliceIndex and Label, and two samples of one patient
C8_Witness ==
    /\ C8_DistinctSlices
    /\ mode = "2D"
    /\ pc = "done"
    /\ result # <<>>
    /\ Len(result[1]) = 3
    /\ \E i, j \in OkCalls :
          /\ calls[i].pid # calls[j].pid
          /\ calls[i].label = calls[j].label
          /\ SampleAt(CallUnit(i)).SliceIndex = SampleAt(CallUnit(j)).SliceIndex

-----------------------------------------------------------------------------
(* C9: for every successful attempt, the record stored under the unit's    *)
(* key holds every feature name the engine returned for that unit, with    *)
(* the value the engine returned (until a later attempt stores under the   *)
(* same key); the returned table is the table so built.                    *)

FeaturesOfCall(c) ==
    IF mode = "3D"
    THEN EngineFeatures(VolumeAt(PosOf(c.pid)).ImageVolume,
                        VolumeAt(PosOf(c.pid)).MaskVolume, c.label)
    ELSE EngineFeatures(SampleAt(<<PosOf(c.pid), c.unit>>).ImageSlice,
                        SampleAt(<<PosOf(c.pid), c.unit>>).MaskSlice, c.label)

Holds(rec, features) ==
    \A f \in DOMAIN features : f \in DOMAIN rec /\ rec[f] = features[f]

C9_FeaturesPreserved ==
    /\ \A i \in OkCalls :
          (\A j \in OkCalls :
              j > i => KeyOfCall(calls[j]) # KeyOfCall(calls[i]))
              => /\ DictHas(all_features, KeyOfCall(calls[i]))
                 /\ Holds(DictGet(all_features, KeyOfCall(calls[i])),
                          FeaturesOfCall(calls[i]))
    /\ result # <<>> => result[1] = all_features

\* the returned 3D table holds the engine's Feature1 under "PR1 - 1"
C9_Witness ==
    /\ mode = "3D"
    /\ pc = "done"
    /\ result # <<>>
    /\ DictHas(result[1], "PR1 - 1")
    /\ DictGet(result[1], "PR1 - 1")["Feature1"] = 5
    /\ \E i \in OkCalls : calls[i].pid = 1 /\ calls[i].label = 1

-----------------------------------------------------------------------------
(* C10: for a finite set S of non-negative integers new_patient_id(S)      *)
(* returns the smallest positive integer that is not in S, and leaves S    *)
(* unchanged.                                                              *)

C10_Result ==
    (id_is_set /\ id_others = {} /\ \A i \in patients_id : i >= 0) =>
        /\ id_error = "none"
        /\ id_pc = "done" =>
              /\ id_result >= 1
              /\ id_result \notin patients_id
              /\ \A i \in 1..(id_result - 1) : i \in patients_id

C10_SmallestFreeId == []C10_Result /\ [][patients_id' = patients_id]_vars

\* new_patient_id({1, 2, 3, 5}) has returned 4
C10_Witness ==
    /\ id_pc = "done"
    /\ id_is_set /\ id_others = {}
    /\ patients_id = {1, 2, 3, 5}
    /\ id_result = 4

-----------------------------------------------------------------------------
(* C11: new_patient_id fails with a type error when its argument is not a  *)
(* set or when the set has a member that is not an integer, and with a     *)
(* value error when the set (of integers) has a negative member; in each   *)
(* of these cases the call ends without returning an id.                   *)

C11_TypeCase == ~id_is_set \/ id_others # {}

C11_ValueCase ==
    id_is_set /\ id_others = {} /\ \E i \in patients_id : i < 0

-----------------------------------------------------------------------------
(* C12: assign_patient_ids applied to a non-empty list of n file names     *)
(* returns a set of exactly n distinct identifiers, whatever mix of file   *)
(* names with and without a recoverable id the list holds, in whatever     *)
(* order.                                                                  *)

C12_OneIdPerFile ==
    as_pc = "done" /\ images_path # <<>> =>
        /\ as_result # <<>>
        /\ Cardinality(as_result[1]) = Len(images_path)

-----------------------------------------------------------------------------
(* C13: in assign_patient_ids a file name for which extract_id returns     *)
(* None receives the smallest positive integer that no earlier file name   *)
(* of the call was assigned, extracted and generated ids alike; id-less    *)
(* names after ids {1, 2} receive 3, 4, ..., and a list of n id-less names *)
(* yields {1..n}.                                                          *)

C13_Earlier(k) == {assigned[j] : j \in 1..(k - 1)}

C13_SmallestFree(k) ==
    /\ assigned[k] >= 1
    /\ assigned[k] \notin C13_Earlier(k)
    /\ \A i \in 1..(assigned[k] - 1) : i \in C13_Earlier(k)

C13_GeneratedIds ==
    /\ \A k \in DOMAIN assigned :
          extract_id(images_path[k]).ret = None => C13_SmallestFree(k)
    /\ as_pc = "done" /\ images_path # <<>> =>
          /\ as_error = "none"
          /\ as_result = <<{assigned[k] : k \in DOMAIN assigned}>>
          /\ (\A k \in DOMAIN images_path :
                 extract_id(images_path[k]).ret = None)
             => as_result = <<1..Len(images_path)>>

\* assign_patient_ids(["PR1", "PR2", "R1", "PR_"]) has returned {1, 2, 3, 4}
C13_Witness ==
    /\ as_pc = "done"
    /\ images_path = <<<<"P", "R", "1">>, <<"P", "R", "2">>,
                       <<"R", "1">>, <<"P", "R", "_">>>>
    /\ assigned = <<1, 2, 3, 4>>
    /\ as_result = <<{1, 2, 3, 4}>>

-----------------------------------------------------------------------------
(* Vocabulary of the properties of extract_id, stated on the path.         *)

\* the file name of the path: what follows its last separator
FileName ==
    LET k == CHOOSE k \in 0..Len(path) :
                 /\ \A i \in (k + 1)..Len(path) : path[i] # "/"
                 /\ k = 0 \/ path[k] = "/"
    IN SubSeq(path, k + 1, Len(path))

\* the positions of the file name where "PR" is immediately followed by a
\* digit
Occurrences ==
    {i \in 1..(Len(FileName) - 2) :
        SubSeq(FileName, i, i + 1) = <<"P", "R">>
        /\ FileName[i + 2] \in Digits}

ContainsPR ==
    \E i \in 1..(Len(FileName) - 1) : SubSeq(FileName, i, i + 1) = <<"P", "R">>

\* the last digit of the maximal digit run that follows "PR" at position i
RunEnd(i) ==
    CHOOSE j \in (i + 2)..Len(FileName) :
        /\ \A k \in (i + 2)..j : FileName[k] \in Digits
        /\ j = Len(FileName) \/ FileName[j + 1] \notin Digits

\* the decimal value of the digits at positions a..b of the file name
DecimalValue(a, b) ==
    LET RECURSIVE Sum(_)
        Sum(k) == IF k > b THEN 0
                  ELSE DigitValue(FileName[k]) * 10 ^ (b - k) + Sum(k + 1)
    IN Sum(a)

WordChar(c) == c \in {"P", "R", "_"} \cup Digits

-----------------------------------------------------------------------------
(* C14: for every file name with one or more occurrences of "PR"           *)
(* immediately followed by digits, extract_id returns the integer value of *)
(* the maximal digit run of the leftmost occurrence, however many          *)
(* occurrences follow.                                                     *)

C14_LeftmostId ==
    ex_pc = "done" /\ Occurrences # {} =>
        LET first == CHOOSE i \in Occurrences : \A j \in Occurrences : i <= j
        IN ex_result = <<DecimalValue(first + 2, RunEnd(first))>>

\* extract_id("PR2PR1") has returned 2
C14_Witness ==
    /\ ex_pc = "done"
    /\ path = <<"P", "R", "2", "P", "R", "1">>
    /\ ex_result = <<2>>

-----------------------------------------------------------------------------
(* C15: the pattern of extract_id is anchored at a word boundary on the    *)
(* left: for a file name all of whose occurrences of "PR<digits>" have     *)
(* their "P" preceded by a word character, extract_id returns None.        *)

C15_LeftAnchored ==
    ex_pc = "done"
    /\ (\A i \in Occurrences : i > 1 /\ WordChar(FileName[i - 1]))
    => ex_result = None

-----------------------------------------------------------------------------
(* C16: extract_id returns None with exactly one warning in each of two    *)
(* exclusive cases, with a message of its own per case: the file name      *)
(* contains "PR" but no "PR<digits>" (malformed id), or it does not        *)
(* contain "PR" at all (no id present); when an id is returned no warning  *)
(* is issued.                                                              *)

C16_OnlyWarning(text) ==
    /\ Len(warned) = 1
    /\ warned[1].category = "UserWarning"
    /\ warned[1].text = text
    /\ warned[1].filename = FileName

C16_Warnings ==
    ex_pc = "done" =>
        /\ Occurrences = {} => ex_result = None
        /\ ex_result = None /\ ContainsPR =>
              C16_OnlyWarning("Invalid patient ID format in file name")
        /\ ex_result = None /\ ~ContainsPR =>
              C16_OnlyWarning("No valid patient ID found in file name")
        /\ ex_result # None => warned = <<>>

\* extract_id("2PR_1") has returned None with the malformed-id warning
C16_Witness ==
    /\ ex_pc = "done"
    /\ path = <<"2", "P", "R", "_", "1">>
    /\ ex_result = None
    /\ Len(warned) = 1
    /\ warned[1].text = "Invalid patient ID format in file name"

-----------------------------------------------------------------------------
(* Vocabulary of the properties of extract_largest_region, stated on its   *)
(* arguments.                                                              *)

\* the arguments are a 2D array and a non-negative integer
ValidRegionCall ==
    /\ grid_type = "ndarray" /\ grid_ndim = 2
    /\ label_type = "int" /\ label_arg >= 0

GridCells == (1..Len(grid_arg)) \X (1..Len(grid_arg[1]))

\* the cells of the grid whose value is the label
LabelCells == {x \in GridCells : grid_arg[x[1]][x[2]] = label_arg}

\* two cells share an edge
Neighbours(x, y) ==
    \/ x[1] = y[1] /\ x[2] - y[2] \in {-1, 1}
    \/ x[2] = y[2] /\ x[1] - y[1] \in {-1, 1}

\* the label cells joined to a cell of S by a path of label cells
RECURSIVE PathClosure(_)
PathClosure(S) ==
    LET next == S \cup {y \in LabelCells : \E x \in S : Neighbours(x, y)}
    IN IF next = S THEN S ELSE PathClosure(next)

\* the maximal 4-connected components of the label cells
LabelComponents == {PathClosure({x}) : x \in LabelCells}

SameShape(g) ==
    /\ Len(g) = Len(grid_arg)
    /\ \A r \in 1..Len(g) : Len(g[r]) = Len(grid_arg[r])

\* the non-zero cells of a grid of the shape of the argument
Painted(g) == {x \in GridCells : g[x[1]][x[2]] # 0}

\* the first cell of a set of cells in row-major order
FirstCell(S) ==
    CHOOSE x \in S : \A y \in S : x[1] < y[1] \/ (x[1] = y[1] /\ x[2] <= y[2])

RowMajorBefore(x, y) == x[1] < y[1] \/ (x[1] = y[1] /\ x[2] < y[2])

-----------------------------------------------------------------------------
(* C17: for every 2D grid g and every non-negative integer label l that    *)
(* does not occur in g, extract_largest_region(g, l) returns None.         *)

C17_AbsentLabelNone ==
    elr_pc = "done" /\ ValidRegionCall /\ LabelCells = {} =>
        elr_result = None /\ elr_error = NoError

\* extract_largest_region([[2, 2, 0], [2, 0, 0]], 1) has returned None
C17_Witness ==
    /\ elr_pc = "done"
    /\ grid_type = "ndarray" /\ grid_ndim = 2
    /\ grid_arg = <<<<2, 2, 0>>, <<2, 0, 0>>>>
    /\ label_type = "int" /\ label_arg = 1
    /\ elr_result = None
    /\ elr_error = NoError

-----------------------------------------------------------------------------
(* C18: for every 2D grid g and every non-negative integer label l, l = 0  *)
(* included, whose cells in g form exactly one 4-connected component,      *)
(* extract_largest_region(g, l) returns a grid, not None, of the shape of  *)
(* g with value l on exactly the cells of that component and 0 elsewhere.  *)

C18_SingleComponentKept ==
    elr_pc = "done" /\ ValidRegionCall /\ Cardinality(LabelComponents) = 1 =>
        /\ elr_result # None
        /\ SameShape(elr_result)
        /\ \A x \in GridCells :
              elr_result[x[1]][x[2]] =
                  IF x \in LabelCells THEN label_arg ELSE 0

-----------------------------------------------------------------------------
(* C19: for every 2D grid g that contains the positive label l,            *)
(* extract_largest_region(g, l) returns a grid of the shape of g whose     *)
(* non-zero cells all have value l and are exactly the cells of one        *)
(* maximal 4-connected component of the cells equal to l, of a cell count  *)
(* not below that of any other component; among components of the maximal  *)
(* count the one enumerated first (row-major order of the first cell) is   *)
(* returned.  The input grid is not modified.                              *)

C19_Result ==
    elr_pc = "done" /\ ValidRegionCall /\ label_arg > 0 /\ LabelCells # {} =>
        /\ elr_error = NoError
        /\ elr_result # None
        /\ SameShape(elr_result)
        /\ LET kept == Painted(elr_result)
           IN /\ \A x \in kept : elr_result[x[1]][x[2]] = label_arg
              /\ kept \in LabelComponents
              /\ \A comp \in LabelComponents :
                    /\ Cardinality(comp) <= Cardinality(kept)
                    /\ Cardinality(comp) = Cardinality(kept) /\ comp # kept
                       => RowMajorBefore(FirstCell(kept), FirstCell(comp))

C19_LargestRegion == []C19_Result /\ [][grid_arg' = grid_arg]_vars

\* extract_largest_region([[1, 0, 1], [2, 0, 1]], 1) has returned the
\* region of the two cells on the right
C19_Witness ==
    /\ elr_pc = "done"
    /\ label_type = "int" /\ label_arg = 1
    /\ grid_arg = <<<<1, 0, 1>>, <<2, 0, 1>>>>
    /\ elr_result = <<<<0, 0, 1>>, <<0, 0, 1>>>>

-----------------------------------------------------------------------------
(* C20: extract_largest_region rejects a negative integer label with a     *)
(* value error and a label that is not an integer with a type error, for   *)
(* every grid; it fails with a type error when the grid is not an array or *)
(* the arguments are swapped (scalar grid, array label), and with a value  *)
(* error when the grid is an array that is not 2-dimensional; in none of   *)
(* these cases a region is returned.                                       *)

C20_Raised(type) == elr_error.type = type /\ elr_result = None

-----------------------------------------------------------------------------
(* Vocabulary of the decomposition properties, stated on the mask array.    *)

\* the cells of plane z of the mask and the values they hold
PlaneCells(z) == (1..Len(vol_mask[z])) \X (1..Len(vol_mask[z][1]))

PlaneValue(z, x) == vol_mask[z][x[1]][x[2]]

PlaneLabels(z) == {PlaneValue(z, x) : x \in PlaneCells(z)} \ {0}

SmallestLabel(z) == CHOOSE m \in PlaneLabels(z) : \A l \in PlaneLabels(z) : m <= l

\* two cells that share an edge
EdgeNeighbours(x, y) ==
    (x[1] - y[1]) * (x[1] - y[1]) + (x[2] - y[2]) * (x[2] - y[2]) = 1

\* the cells of S reachable from cell x through edge neighbours in S
RECURSIVE Reach(_, _)
Reach(S, R) ==
    LET more == {y \in S \ R : \E x \in R : EdgeNeighbours(x, y)}
    IN IF more = {} THEN R ELSE Reach(S, R \cup more)

\* the size of the largest 4-connected set of cells of plane z holding l
LargestSize(z, l) ==
    LET cells == {x \in PlaneCells(z) : PlaneValue(z, x) = l}
        sizes == {Cardinality(Reach(cells, {x})) : x \in cells}
    IN IF cells = {} THEN 0
       ELSE CHOOSE n \in sizes : \A k \in sizes : k <= n

-----------------------------------------------------------------------------
\* C21: process_slice returns the largest region of the numerically
\* smallest non-zero label of the plane together with that label, whatever
\* the regions of the other labels are, and (None, None) exactly for a plane
\* without a non-zero cell.
C21_FirstMatch ==
    gs_pc = "done" =>
        \A z \in DOMAIN vol_mask :
            IF PlaneLabels(z) = {}
            THEN ps_returns[z] = <<None, None>>
            ELSE /\ ps_returns[z][1] # None
                 /\ ps_returns[z][2] = SmallestLabel(z)
                 /\ ps_returns[z][1] =
                        extract_largest_region(vol_mask[z], SmallestLabel(z))

\* label 2 has the strictly larger region, label 1 is returned
C21_Witness ==
    /\ gs_pc = "done"
    /\ vol_mask = <<<<<<1, 2, 2>>, <<0, 2, 2>>>>>>
    /\ LargestSize(1, 2) > LargestSize(1, 1)
    /\ ps_returns = <<<<<<<<1, 0, 0>>, <<0, 0, 0>>>>, 1>>>>

-----------------------------------------------------------------------------
\* C22: get_slices_2D returns exactly one sample for each plane index whose
\* mask plane has a non-zero cell and none for an all-zero plane; SliceIndex
\* is the index of the plane in the volume, the samples are in strictly
\* increasing SliceIndex order and carry the raw image plane of their index.
C22_KeptIndices == {z - 1 : z \in {y \in DOMAIN vol_mask : PlaneLabels(y) # {}}}

C22_Slices ==
    gs_pc = "done" =>
        /\ Len(gs_result) = Cardinality(C22_KeptIndices)
        /\ Len(gs_result) <= Len(vol_mask)
        /\ {gs_result[j].SliceIndex : j \in DOMAIN gs_result} = C22_KeptIndices
        /\ \A j, k \in DOMAIN gs_result :
               j < k => gs_result[j].SliceIndex < gs_result[k].SliceIndex
        /\ \A j \in DOMAIN gs_result :
               gs_result[j].ImageSlice = vol_image[gs_result[j].SliceIndex + 1]

\* planes [all-zero, all-label-1]: one sample, with SliceIndex 1
C22_Witness ==
    /\ gs_pc = "done"
    /\ vol_mask = <<<<<<0, 0, 0>>>>, <<<<1, 1, 1>>>>>>
    /\ Len(gs_result) = 1
    /\ gs_result[1].SliceIndex = 1
    /\ gs_result[1].ImageSlice = <<<<11, 11, 11>>>>

-----------------------------------------------------------------------------
\* C23: the mask of every sample of get_slices_2D has the shape of its
\* plane and exactly one distinct non-zero value, the sample's Label; its
\* non-zero cells are one 4-connected component of the cells that hold Label
\* in the plane, of the largest size; every other cell is zero.
C23_SampleInvariant ==
    gs_pc = "done" =>
        \A j \in DOMAIN gs_result :
            LET s == gs_result[j]
                z == s.SliceIndex + 1
                g == s.MaskSlice
                nz == {x \in PlaneCells(z) : g[x[1]][x[2]] # 0}
                same == {x \in PlaneCells(z) : PlaneValue(z, x) = s.Label}
            IN /\ Len(g) = Len(vol_mask[z])
               /\ \A r \in DOMAIN g : Len(g[r]) = Len(vol_mask[z][r])
               /\ {g[x[1]][x[2]] : x \in nz} = {s.Label}
               /\ s.Label # 0
               /\ nz \subseteq same
               /\ \A x \in nz : Reach(nz, {x}) = nz /\ Reach(same, {x}) = nz
               /\ Cardinality(nz) = LargestSize(z, s.Label)

\* label 2 and the one-cell component of label 1 are zero in the sample
C23_Witness ==
    /\ gs_pc = "done"
    /\ vol_mask = <<<<<<1, 0, 1>>, <<2, 0, 1>>>>>>
    /\ Len(gs_result) = 1
    /\ gs_result[1].Label = 1
    /\ gs_result[1].MaskSlice = <<<<0, 0, 1>>, <<0, 0, 1>>>>

-----------------------------------------------------------------------------
(* Vocabulary of the round trip through get_volume_3D, stated on the       *)
(* images and masks that were wrapped.                                     *)

\* the non-zero values of the mask that was wrapped for patient k
OriginalLabels(k) ==
    LET m == loaded[k].mask
        voxels == {x \in (DOMAIN m) \X (1..MaskCells) \X (1..MaskCells) :
                      x[2] \in DOMAIN m[x[1]] /\ x[3] \in DOMAIN m[x[1]][x[2]]}
    IN {m[x[1]][x[2]][x[3]] : x \in voxels} \ {0}

\* the labels handed to the engine for patient k so far
LabelsSent(k) ==
    {calls[i].label : i \in {j \in DOMAIN calls : calls[j].pid = pipe_ids[k]}}

\* the extraction has left patient k behind
PatientFinished(k) ==
    \/ pc = "loop" /\ pi > k
    \/ pc = "done" /\ result # <<>>

-----------------------------------------------------------------------------
\* C24: get_volume_3D returns one sample that holds the image and the mask
\* it was given, unchanged; the labels radiomic_extractor_3D hands to the
\* engine for a patient are non-zero labels of the original mask, and all
\* of them once the patient is finished.
C24_RoundTrip ==
    /\ \A k \in DOMAIN patient_dict :
           /\ patient_dict[k][1] = pipe_ids[k]
           /\ Len(patient_dict[k][2]) = 1
           /\ patient_dict[k][2][1].ImageVolume = loaded[k].image
           /\ patient_dict[k][2][1].MaskVolume = loaded[k].mask
    /\ \A k \in DOMAIN loaded :
           /\ LabelsSent(k) \subseteq OriginalLabels(k)
           /\ PatientFinished(k) => LabelsSent(k) = OriginalLabels(k)

\* a mask with labels 1 and 2: both are handed to the engine
C24_Witness ==
    /\ pc = "done"
    /\ result # <<>>
    /\ Len(loaded) = 1
    /\ loaded[1].mask = <<<<<<1, 2>>>>>>
    /\ patient_dict[1][2][1].MaskVolume = <<<<<<1, 2>>>>>>
    /\ LabelsSent(1) = {1, 2}

-----------------------------------------------------------------------------
\* C25: get_patient_image_mask_dict, called with arguments of the declared
\* types, raises ValueError and returns no mapping whenever one of
\* imgs_path, masks_path, patient_ids is empty, whenever their lengths are
\* not all equal, and whenever mode is neither "2D" nor "3D".
C25_ValueErrors ==
    /\ ld_pc = "done"
    /\ ld_typed
    /\ \/ Len(images_path) = 0 \/ Len(masks_path) = 0 \/ ids_arg = {}
       \/ Len(images_path) # Len(masks_path)
       \/ Len(images_path) # Cardinality(ids_arg)
       \/ mode \notin {"2D", "3D"}
    => ld_error.type = "ValueError" /\ ld_result = <<>>

-----------------------------------------------------------------------------
(* C26: every unit of work goes Pending -> Attempted -> Recorded or        *)
(* Skipped and nowhere else.  The engine is invoked at most once per unit  *)
(* (patient, sample or label); the invocations made are never undone; the  *)
(* table holds exactly the keys of the units whose invocation succeeded,   *)
(* so a unit whose invocation failed is not recorded and a unit is not     *)
(* recorded without an invocation; no key is ever removed from the table;  *)
(* a call that returns normally has attempted every unit; and the call     *)
(* terminates.                                                             *)

\* the unit of an engine invocation
C26_UnitOf(c) == <<c.pid, c.unit>>

\* the units of the input mapping: patient id and position of the label in
\* ascending order (3D) or of the sample in the list (2D)
C26_Units ==
    IF mode = "3D"
    THEN {<<PatientAt(u[1]),
             Cardinality({l \in MaskLabels(u[1]) : l <= u[2]})>> :
               u \in Units3D}
    ELSE {<<PatientAt(u[1]), u[2]>> : u \in Units2D}

C26_Safe ==
    /\ \A i, j \in DOMAIN calls :
          i # j => C26_UnitOf(calls[i]) # C26_UnitOf(calls[j])
    /\ DictKeys(all_features) = {KeyOfCall(calls[i]) : i \in OkCalls}
    /\ pc = "done" /\ result # <<>> =>
          /\ result[1] = all_features
          /\ {C26_UnitOf(calls[i]) : i \in DOMAIN calls} = C26_Units

C26_Step ==
    /\ Len(calls') \in {Len(calls), Len(calls) + 1}
    /\ SubSeq(calls', 1, Len(calls)) = calls
    /\ \A k \in DictKeys(all_features) : DictHas(all_features', k)
    /\ result # <<>> => UNCHANGED <<result, calls, all_features>>

-----------------------------------------------------------------------------
(* C27: units are attempted in iteration order: patients in the order of   *)
(* the input mapping, all units of a patient before any unit of the next   *)
(* one, and within a patient the non-zero labels in ascending order (3D)   *)
(* or the samples in list order (2D); a record is inserted when its unit   *)
(* is attempted, at the end of the table, so that the keys of the table    *)
(* are in the order of the successful attempts.                            *)

\* the keys of a table, in the order the table holds them
C27_KeySeq(d) == [k \in DOMAIN d |-> d[k][1]]

\* the keys of the successful attempts, in attempt order
C27_OkKeys == [n \in 1..Cardinality(OkCalls) |->
                 KeyOfCall(calls[CHOOSE i \in OkCalls :
                     Cardinality({j \in OkCalls : j <= i}) = n])]

\* a sequence of keys without the repetitions of a key it already holds
C27_FirstOnly(s) ==
    LET first == {i \in DOMAIN s : \A j \in 1..(i - 1) : s[j] # s[i]}
    IN [n \in 1..Cardinality(first) |->
           s[CHOOSE i \in first : Cardinality({j \in first : j <= i}) = n]]

C27_Ordered ==
    /\ \A i, j \in DOMAIN calls :
          i < j =>
             \/ PosOf(calls[i].pid) < PosOf(calls[j].pid)
             \/ /\ calls[i].pid = calls[j].pid
                /\ calls[i].unit < calls[j].unit
                /\ mode = "3D" => calls[i].label < calls[j].label
    /\ \A i \in DOMAIN calls :
          mode = "2D" => calls[i].label = SampleAt(CallUnit(i)).Label
    /\ C27_KeySeq(all_features) = C27_FirstOnly(C27_OkKeys)
    /\ result # <<>> => C27_KeySeq(result[1]) = C27_FirstOnly(C27_OkKeys)

\* a record is stored by the step that attempts its unit, behind the keys
\* the table already holds
C27_Insert ==
    Len(all_features') > Len(all_features) =>
        /\ Len(calls') = Len(calls) + 1
        /\ calls'[Len(calls')].ok
        /\ C27_KeySeq(all_features') =
               Append(C27_KeySeq(all_features),
                      KeyOfCall(calls'[Len(calls')]))

C27_IterationOrder == []C27_Ordered /\ [][C27_Insert]_vars

\* a returned 3D run over patients held in descending order of their ids:
\* the first patient's labels 1 and 2, then the second patient's
C27_Witness ==
    /\ pc = "done"
    /\ mode = "3D"
    /\ result # <<>>
    /\ Len(patient_dict) = 2
    /\ PatientAt(1) = 2 /\ PatientAt(2) = 1
    /\ Len(calls) = 4
    /\ ~calls[2].ok
    /\ C27_KeySeq(result[1]) =
           <<TableKey3D(2, 1), TableKey3D(1, 1), TableKey3D(1, 2)>>

-----------------------------------------------------------------------------
\* C28: whenever the extraction over the samples get_slices_2D produced
\* returns normally, the engine was invoked at least once for every patient
\* of the mapping, so a patient whose mask has no non-zero label is never
\* passed over silently.
C28_EveryPatientAttempted ==
    pc = "done" /\ result # <<>> =>
        \A k \in DOMAIN patient_dict :
            \E i \in DOMAIN calls : calls[i].pid = patient_dict[k][1]

-----------------------------------------------------------------------------
\* C29: when the set of assign_patient_ids(images_path) is handed to
\* get_patient_image_mask_dict with the same list, the samples stored under
\* the id that was assigned to the k-th path are samples of the k-th image
\* (the image of the k-th file holds intensity k), for every list of paths.
C29_IdentityPreserved ==
    ld_pc = "done" /\ ld_result # <<>> =>
        \A k \in DOMAIN images_path :
            /\ DictHas(ld_result[1], assigned[k])
            /\ \A s \in Range(DictGet(ld_result[1], assigned[k])) :
                  s.ImageSlice.val = k

-----------------------------------------------------------------------------
\* C30: every record of a returned table is consistent with its key, also
\* when the engine's mapping holds fields named MaskLabel, PatientID or
\* SliceIndex: MaskLabel is the label of the key, PatientID the patient id
\* of the key and, in 2D, SliceIndex the slice index of the key.
C30_RecordMatchesKey ==
    pc = "done" /\ result # <<>> =>
        \A i \in OkCalls :
            LET rec == DictGet(result[1], KeyOfCall(calls[i]))
            IN /\ rec.MaskLabel = calls[i].label
               /\ rec.PatientID = calls[i].pid
               /\ mode = "2D" =>
                     rec.SliceIndex = SampleAt(CallUnit(i)).SliceIndex

TypeOK == pc \in {"idle", "build", "wrap", "start", "loop", "done"}

=============================================================================
